---- MODULE Spec2Model ----
(***************************************************************************)
(* One process's view of a GroupCoordinator                               *)
(* (vllm/distributed/parallel_state.py): its membership, its two          *)
(* sub-groups, its communicator handles, the graph_capture scopes that    *)
(* are open on it and the backend calls each operation issues; the        *)
(* module-level registry of the same file; and one collective exchange as *)
(* every member of the group sees it.                                     *)
(***************************************************************************)
EXTENDS Integers, Sequences, FiniteSets, TLC

\* Bounds of the model.
NumRanks == 4        \* torch.distributed.get_world_size()
MaxDepth == 2        \* graph_capture scopes open at the same time
MaxWorld == 4        \* world size of the process whose registry is followed
TopologyWorld == 8   \* world size when only the group topology is computed
MaxInits == 2        \* initialize_model_parallel runs that build groups
MaxKeys == 3         \* keys of a tensor_dict

None == "None"

VARIABLES
    rank,             \* self.rank: global rank of this process
    ranks,            \* self.ranks: global ranks of the group (1-indexed sequence)
    world_size,       \* self.world_size
    rank_in_group,    \* self.rank_in_group (0-indexed, as in the source)
    device_group,     \* self.device_group: "dev" or None
    cpu_group,        \* self.cpu_group: "cpu" or None
    pynccl_comm,      \* self.pynccl_comm: "obj" or None
    ca_comm,          \* self.ca_comm: "obj" or None
    shm_broadcaster,  \* self.shm_broadcaster: "obj" or None
    pynccl_state,     \* the PyNcclCommunicator object: [disabled, stream]
    ca_capturing,     \* the CustomAllreduce object's capture mode
    current_stream,   \* torch.cuda.current_stream(); 0 is the default stream
    scopes,           \* open graph_capture scopes, innermost last
    released,         \* destroy_process_group calls so far, per sub-group
    destroyed,        \* destroy() has been called
    op,               \* the last operation: name, arguments, outcome
    calls,            \* the backend calls the last operation issued, in order
    registry,         \* the module globals _TP_DEVICE_GROUP ... _LOCAL_RANK
    dist,             \* torch.distributed and the platform, as this process sees them
    peers,            \* the last exchange: each member's outcome, by global rank
    pc                \* an exchange in progress: each member's position in its calls

\* The coordinator as the operations read it.
Self ==
    [rank |-> rank, ranks |-> ranks, world_size |-> world_size,
     rank_in_group |-> rank_in_group, device_group |-> device_group,
     cpu_group |-> cpu_group, pynccl_comm |-> pynccl_comm, ca_comm |-> ca_comm,
     shm_broadcaster |-> shm_broadcaster, pynccl_disabled |-> pynccl_state.disabled]

coord == <<rank, ranks, world_size, rank_in_group, device_group, cpu_group,
           pynccl_comm, ca_comm, shm_broadcaster>>
backend == <<pynccl_state, ca_capturing, current_stream>>
vars == <<rank, ranks, world_size, rank_in_group, device_group, cpu_group,
          pynccl_comm, ca_comm, shm_broadcaster, pynccl_state, ca_capturing,
          current_stream, scopes, released, destroyed, op, calls,
          registry, dist, peers, pc>>

----------------------------------------------------------------------------
\* Python values.

\* A value of any Python type, tagged so that values of different types compare.
Val(t, v) == [t |-> t, v |-> v]
NoneVal == Val("none", 0)
Same(a, b) == a.t = b.t /\ a.v = b.v

\* A torch.Tensor: placement, element type, shape and an abstract content.
Tensor(device, dtype, size, data) ==
    [device |-> device, dtype |-> dtype, size |-> size, data |-> data]

\* seq[i] with Python's indexing: 0-based, negative indices count from the end.
PyInRange(seq, i) == -Len(seq) <= i /\ i < Len(seq)
PyIndex(seq, i) == seq[(i % Len(seq)) + 1]

\* The backend call record: the function, its group argument, the peer (global
\* rank of src/dst, -1 if none) and a note on the buffer.
Call(fn, group, peer, buf) == [fn |-> fn, group |-> group, peer |-> peer, buf |-> buf]

\* An operation's outcome: returned normally with a value, or raised.
Ok(v, cs) == [status |-> "ok", err |-> "", out |-> v, calls |-> cs]
Raise(e, cs) == [status |-> "error", err |-> e, out |-> NoneVal, calls |-> cs]

\* torch.distributed resolves group=None to the default (device) world group.
TorchGroup(g) == IF g = None THEN "WORLD" ELSE g

----------------------------------------------------------------------------
\* Rank topology.

Divisors(n) == {d \in 1..n : n % d = 0}

\* range(i * tp, (i + 1) * tp) for i in range(world // tp)
TensorGroupRanks(ws, tp) ==
    [i \in 1..(ws \div tp) |-> [j \in 1..tp |-> (i - 1) * tp + (j - 1)]]

\* range(i, world, n) for i in range(n), n = world // pp
PipelineGroupRanks(ws, pp) ==
    LET n == ws \div pp
    IN  [i \in 1..n |-> [j \in 1..pp |-> (i - 1) + (j - 1) * n]]

GroupRankChoices ==
    {TensorGroupRanks(NumRanks, t) : t \in Divisors(NumRanks)}
        \cup {PipelineGroupRanks(NumRanks, p) : p \in Divisors(NumRanks)}

SeqRange(s) == {s[i] : i \in 1..Len(s)}
IndexOf(s, x) == (CHOOSE i \in 1..Len(s) : s[i] = x /\ \A j \in 1..(i - 1) : s[j] # x) - 1

----------------------------------------------------------------------------
\* External communicator objects.

\* PyNcclCommunicator as constructed: disabled, on the default stream.
PyNcclInit == [disabled |-> TRUE, stream |-> 0]

----------------------------------------------------------------------------
\* GroupCoordinator.__init__

\* The membership the loop over group_ranks retains: the last one holding r.
OwnRanks(group_ranks, r) ==
    LET last == CHOOSE i \in 1..Len(group_ranks) :
                    /\ r \in SeqRange(group_ranks[i])
                    /\ \A j \in (i + 1)..Len(group_ranks) : r \notin SeqRange(group_ranks[j])
    IN  group_ranks[last]

Construct(group_ranks, r, use_pynccl, use_custom_allreduce, same_node) ==
    LET own == OwnRanks(group_ranks, r)
    IN  /\ rank = r
        /\ ranks = own
        /\ world_size = Len(own)
        /\ rank_in_group = IndexOf(own, r)
        /\ device_group = "dev"
        /\ cpu_group = "cpu"
        /\ pynccl_comm = IF use_pynccl /\ Len(own) > 1 THEN "obj" ELSE None
        /\ ca_comm = IF use_custom_allreduce /\ Len(own) > 1 THEN "obj" ELSE None
        /\ shm_broadcaster = IF Len(own) > 1 /\ same_node THEN "obj" ELSE None
        /\ pynccl_state = PyNcclInit
        /\ ca_capturing = FALSE
        /\ current_stream = 0
        /\ scopes = <<>>
        /\ released = [g \in {"dev", "cpu"} |-> 0]
        /\ destroyed = FALSE
        /\ op = [name |-> "__init__", in |-> NoneVal, src |-> 0, dim |-> 0,
                 status |-> "ok", err |-> "", out |-> NoneVal]
        /\ calls = <<>>

\* A ProcessGroup handle, a communicator object and a rank list, each with the
\* value that stands for Python's None.
Group(backend_name, group_ranks, build) ==
    [backend |-> backend_name, ranks |-> group_ranks, build |-> build]
NoGroup == Group(None, <<>>, 0)
Comm(kind, group, device) == [kind |-> kind, group |-> group, device |-> device]
NoComm == Comm(None, NoGroup, -1)
NoList == Val("none", <<>>)

\* The module globals as the import leaves them.
RegistryUnset ==
    [ENABLE_CUSTOM_ALL_REDUCE |-> TRUE,
     WORLD |-> None, TP |-> None, PP |-> None,
     TP_DEVICE_GROUP |-> NoGroup, TP_CPU_GROUP |-> NoGroup,
     TP_PYNCCL_COMMUNICATOR |-> NoComm, TP_CA_COMMUNICATOR |-> NoComm,
     PP_DEVICE_GROUP |-> NoGroup, PP_CPU_GROUP |-> NoGroup,
     PP_PYNCCL_COMMUNICATOR |-> NoComm,
     DEVICE_WORLD_GROUP |-> NoGroup, CPU_WORLD_GROUP |-> NoGroup,
     PP_GLOBAL_RANKS |-> NoList, LOCAL_RANK |-> -1]

\* torch.distributed after init_process_group(world_size=ws, rank=r); builds
\* counts the initialize_model_parallel runs that created groups.
Initialized(ws, r, hip) ==
    [initialized |-> TRUE, world_size |-> ws, rank |-> r, backend |-> "nccl",
     hip |-> hip, builds |-> 0]

\* A coordinator is constructed in a process whose torch.distributed is
\* initialised; the registry of this file is not involved.
Init ==
    \E group_ranks \in GroupRankChoices, r \in 0..(NumRanks - 1),
       use_pynccl \in BOOLEAN, use_custom_allreduce \in BOOLEAN, same_node \in BOOLEAN :
        /\ Construct(group_ranks, r, use_pynccl, use_custom_allreduce, same_node)
        /\ registry = RegistryUnset
        /\ dist = Initialized(NumRanks, r, FALSE)
        /\ peers = <<>>
        /\ pc = <<>>

\* Every operation records its name, arguments and outcome.
Finish(name, in, src, dim, res) ==
    /\ op' = [name |-> name, in |-> in, src |-> src, dim |-> dim,
              status |-> res.status, err |-> res.err, out |-> res.out]
    /\ calls' = res.calls
    /\ UNCHANGED <<registry, dist, peers, pc>>

----------------------------------------------------------------------------
\* Inputs.

TensorInputs == {Tensor("cuda", "float16", <<2, 2>>, "x")}
\* Local rank arguments: negative, in range, one past the end.
SrcInputs(c) == {-1, 0, 1, c.world_size}
\* Dimension arguments: the last axis, and one past the tensor's rank.
DimInputs == {-1, 2}

----------------------------------------------------------------------------
\* GroupCoordinator.all_reduce

Reduced(t, by) == Tensor(t.device, t.dtype, t.size, by)

\* handled: CustomAllreduce.custom_all_reduce returned a tensor rather than None.
AllReduceMisordered(c, input, handled) ==
    IF c.world_size = 1 THEN Ok(Val("tensor", input), <<>>)
    ELSE IF c.pynccl_comm # None /\ ~c.pynccl_disabled
    THEN Ok(Val("tensor", Reduced(input, "pynccl")),
            <<Call("pynccl.all_reduce", None, -1, "in_place")>>)
    ELSE IF c.ca_comm # None /\ handled
    THEN Ok(Val("tensor", Reduced(input, "custom")),
            <<Call("ca.custom_all_reduce", None, -1, "out")>>)
    ELSE Ok(Val("tensor", Reduced(input, "torch")),
            <<Call("torch.all_reduce", c.device_group, -1, "in_place")>>)

AllReduceIgnoresDisabled(c, input, handled) ==
    IF c.world_size = 1 THEN Ok(Val("tensor", input), <<>>)
    ELSE IF c.ca_comm # None /\ handled
    THEN Ok(Val("tensor", Reduced(input, "custom")),
            <<Call("ca.custom_all_reduce", None, -1, "out")>>)
    ELSE LET tried == IF c.ca_comm # None
                      THEN <<Call("ca.custom_all_reduce", None, -1, "none")>>
                      ELSE <<>>
         IN  IF c.pynccl_comm # None
             THEN Ok(Val("tensor", Reduced(input, "pynccl")),
                     Append(tried, Call("pynccl.all_reduce", None, -1, "in_place")))
             ELSE Ok(Val("tensor", Reduced(input, "torch")),
                     Append(tried, Call("torch.all_reduce", c.device_group, -1, "in_place")))

all_reduce(c, input, handled) ==
    IF c.world_size = 1 THEN Ok(Val("tensor", input), <<>>)
    ELSE IF c.ca_comm # None /\ handled
    THEN Ok(Val("tensor", Reduced(input, "custom")),
            <<Call("ca.custom_all_reduce", None, -1, "out")>>)
    ELSE LET tried == IF c.ca_comm # None
                      THEN <<Call("ca.custom_all_reduce", None, -1, "none")>>
                      ELSE <<>>
         IN  IF c.pynccl_comm # None /\ ~c.pynccl_disabled
             THEN Ok(Val("tensor", Reduced(input, "pynccl")),
                     Append(tried, Call("pynccl.all_reduce", None, -1, "in_place")))
             ELSE Ok(Val("tensor", Reduced(input, "torch")),
                     Append(tried, Call("torch.all_reduce", c.device_group, -1, "in_place")))

AllReduce ==
    \E input \in TensorInputs, handled \in BOOLEAN :
        /\ Finish("all_reduce", Val("tensor", input), 0, 0, all_reduce(Self, input, handled))
        /\ UNCHANGED <<coord, backend, scopes, released, destroyed>>

----------------------------------------------------------------------------
\* GroupCoordinator.all_gather and gather

\* -input_.dim() <= dim < input_.dim()
DimOk(input, dim) == -Len(input.size) <= dim /\ dim < Len(input.size)
NormDimKeepsNegative(input, dim) == dim
\* if dim < 0: dim += input_.dim()
NormDim(input, dim) == IF dim < 0 THEN dim + Len(input.size) ELSE dim
\* input_size[:dim] + (world_size * input_size[dim],) + input_size[dim + 1:]
Concatenated(input, d, n) ==
    Tensor(input.device, input.dtype,
           [i \in 1..Len(input.size) |->
                IF i = d + 1 THEN n * input.size[i] ELSE input.size[i]],
           "gathered")

all_gather(c, input, dim) ==
    IF c.world_size = 1 THEN Ok(Val("tensor", input), <<>>)
    ELSE IF ~DimOk(input, dim) THEN Raise("AssertionError: Invalid dim", <<>>)
    ELSE Ok(Val("tensor", Concatenated(input, NormDim(input, dim), c.world_size)),
            <<Call("torch.all_gather_into_tensor", c.device_group, -1, "output_tensor")>>)

AllGather ==
    \E input \in TensorInputs, dim \in DimInputs :
        /\ Finish("all_gather", Val("tensor", input), 0, dim, all_gather(Self, input, dim))
        /\ UNCHANGED <<coord, backend, scopes, released, destroyed>>

GatherAddressesLocalIndex(c, input, dst, dim) ==
    IF c.world_size = 1 THEN Ok(Val("tensor", input), <<>>)
    ELSE IF ~DimOk(input, dim) THEN Raise("AssertionError: Invalid dim", <<>>)
    ELSE LET call == Call("torch.gather", c.device_group, dst,
                          IF c.rank_in_group = dst THEN "gather_list" ELSE "None")
         IN  IF c.rank_in_group = dst
             THEN Ok(Val("tensor", Concatenated(input, NormDim(input, dim), c.world_size)),
                     <<call>>)
             ELSE Ok(NoneVal, <<call>>)
gather(c, input, dst, dim) ==
    IF c.world_size = 1 THEN Ok(Val("tensor", input), <<>>)
    ELSE IF ~DimOk(input, dim) THEN Raise("AssertionError: Invalid dim", <<>>)
    ELSE IF ~PyInRange(c.ranks, dst) THEN Raise("IndexError", <<>>)
    ELSE LET call == Call("torch.gather", c.device_group, PyIndex(c.ranks, dst),
                          IF c.rank_in_group = dst THEN "gather_list" ELSE "None")
         IN  IF c.rank_in_group = dst
             THEN Ok(Val("tensor", Concatenated(input, NormDim(input, dim), c.world_size)),
                     <<call>>)
             ELSE Ok(NoneVal, <<call>>)

Gather ==
    \E input \in TensorInputs, dst \in SrcInputs(Self), dim \in DimInputs :
        /\ Finish("gather", Val("tensor", input), dst, dim, gather(Self, input, dst, dim))
        /\ UNCHANGED <<coord, backend, scopes, released, destroyed>>

----------------------------------------------------------------------------
\* GroupCoordinator.broadcast

broadcast(c, input, src) ==
    IF ~(src < c.world_size) THEN Raise("AssertionError: Invalid src rank", <<>>)
    ELSE IF c.world_size = 1 THEN Ok(Val("tensor", input), <<>>)
    ELSE IF ~PyInRange(c.ranks, src) THEN Raise("IndexError", <<>>)
    ELSE Ok(Val("tensor", Tensor(input.device, input.dtype, input.size, "broadcast")),
            <<Call("torch.broadcast", c.device_group, PyIndex(c.ranks, src), "input_")>>)

Broadcast ==
    \E input \in TensorInputs, src \in SrcInputs(Self) :
        /\ Finish("broadcast", Val("tensor", input), src, 0, broadcast(Self, input, src))
        /\ UNCHANGED <<coord, backend, scopes, released, destroyed>>

----------------------------------------------------------------------------
\* GroupCoordinator.broadcast_object and broadcast_object_list

\* ShmRingBufferIO.broadcast_object: the writer (rank 0 of the group) returns its
\* object, every reader the object the writer sent.
ShmBroadcastObject(c, obj, sent) == IF c.rank_in_group = 0 THEN obj ELSE sent

BroadcastObjectShmAnySrc(c, obj, src, sent) ==
    IF ~(src < c.world_size) THEN Raise("AssertionError: Invalid src rank", <<>>)
    ELSE IF c.world_size = 1 THEN Ok(obj, <<>>)
    ELSE IF c.shm_broadcaster # None
    THEN Ok(ShmBroadcastObject(c, obj, sent),
            <<Call("shm.broadcast_object", None, -1, "obj")>>)
    ELSE IF c.rank_in_group = src
    THEN Ok(obj, <<Call("torch.broadcast_object_list", c.cpu_group,
                        PyIndex(c.ranks, src), "[obj]")>>)
    ELSE IF ~PyInRange(c.ranks, src) THEN Raise("IndexError", <<>>)
    ELSE Ok(sent, <<Call("torch.broadcast_object_list", c.cpu_group,
                         PyIndex(c.ranks, src), "recv")>>)

\* sent: the object the source process passes to the same broadcast.
broadcast_object(c, obj, src, sent) ==
    IF ~(src < c.world_size) THEN Raise("AssertionError: Invalid src rank", <<>>)
    ELSE IF c.world_size = 1 THEN Ok(obj, <<>>)
    ELSE IF c.shm_broadcaster # None
    THEN IF src # 0
         THEN Raise("AssertionError: Shared memory broadcaster only supports src=0", <<>>)
         ELSE Ok(ShmBroadcastObject(c, obj, sent),
                 <<Call("shm.broadcast_object", None, -1, "obj")>>)
    ELSE IF c.rank_in_group = src
    THEN Ok(obj, <<Call("torch.broadcast_object_list", c.cpu_group,
                        PyIndex(c.ranks, src), "[obj]")>>)
    ELSE IF ~PyInRange(c.ranks, src) THEN Raise("IndexError", <<>>)
    ELSE Ok(sent, <<Call("torch.broadcast_object_list", c.cpu_group,
                         PyIndex(c.ranks, src), "recv")>>)

ObjInput == Val("obj", "mine")
ObjSent == Val("obj", "sources")

BroadcastObject ==
    \E src \in SrcInputs(Self) :
        /\ Finish("broadcast_object", ObjInput, src, 0,
                  broadcast_object(Self, ObjInput, src, ObjSent))
        /\ UNCHANGED <<coord, backend, scopes, released, destroyed>>

BroadcastObjectListNoBypass(c, obj_list, src, sent) ==
    IF ~(src < c.world_size) THEN Raise("AssertionError: Invalid src rank", <<>>)
    ELSE IF ~PyInRange(c.ranks, src) THEN Raise("IndexError", <<>>)
    ELSE Ok(IF PyIndex(c.ranks, src) = c.rank THEN obj_list ELSE sent,
            <<Call("torch.broadcast_object_list", c.device_group,
                   PyIndex(c.ranks, src), "obj_list")>>)

broadcast_object_list(c, obj_list, src, sent) ==
    IF ~(src < c.world_size) THEN Raise("AssertionError: Invalid src rank", <<>>)
    ELSE IF c.world_size = 1 THEN Ok(obj_list, <<>>)
    ELSE IF ~PyInRange(c.ranks, src) THEN Raise("IndexError", <<>>)
    ELSE Ok(IF PyIndex(c.ranks, src) = c.rank THEN obj_list ELSE sent,
            <<Call("torch.broadcast_object_list", c.device_group,
                   PyIndex(c.ranks, src), "obj_list")>>)

ListInput == Val("list", <<"mine", "mine">>)
ListSent == Val("list", <<"sources", "sources">>)

BroadcastObjectList ==
    \E src \in SrcInputs(Self) :
        /\ Finish("broadcast_object_list", ListInput, src, 0,
                  broadcast_object_list(Self, ListInput, src, ListSent))
        /\ UNCHANGED <<coord, backend, scopes, released, destroyed>>

----------------------------------------------------------------------------
\* _split_tensor_dict and GroupCoordinator.broadcast_tensor_dict
\* A dict is the sequence of its <<key, value>> items in iteration order.

RECURSIVE Numel(_)
Numel(size) == IF size = <<>> THEN 1 ELSE Head(size) * Numel(Tail(size))

IsTensor(item) == item[2].t = "tensor"
IsMeta(item) == item[2].t = "TensorMetadata"
TensorMetadata(t) == Val("TensorMetadata", [device |-> t.device, dtype |-> t.dtype, size |-> t.size])

split_tensor_dict(tensor_dict) ==
    [metadata_list |->
        [i \in 1..Len(tensor_dict) |->
            IF IsTensor(tensor_dict[i])
            THEN <<tensor_dict[i][1], TensorMetadata(tensor_dict[i][2].v)>>
            ELSE tensor_dict[i]],
     tensor_list |->
        LET ts == SelectSeq(tensor_dict, IsTensor)
        IN  [i \in 1..Len(ts) |-> ts[i][2].v]]

\* torch.distributed.broadcast(tensor, src=src, group=..., async_op=True); the
\* call record keeps the tensor it was given.
AsyncBroadcast(c, t, src) ==
    Call("torch.broadcast", IF t.device = "cpu" THEN c.cpu_group ELSE c.device_group,
         src, t)
Wait(call) == Call("handle.wait", call.group, call.peer, "")

\* The sender's loop over tensor_list, then the loop over async_handles.
SenderCallsWithEmpty(c, tensor_list, src) ==
    LET handles == [i \in 1..Len(tensor_list) |-> AsyncBroadcast(c, tensor_list[i], src)]
    IN  handles \o [i \in 1..Len(handles) |-> Wait(handles[i])]
SenderCallsWaitEach(c, tensor_list, src) ==
    LET sent == SelectSeq(tensor_list, LAMBDA t : Numel(t.size) # 0)
    IN  [i \in 1..(2 * Len(sent)) |->
            IF i % 2 = 1 THEN AsyncBroadcast(c, sent[(i + 1) \div 2], src)
            ELSE Wait(AsyncBroadcast(c, sent[i \div 2], src))]
SenderCalls(c, tensor_list, src) ==
    LET sent == SelectSeq(tensor_list, LAMBDA t : Numel(t.size) # 0)
        handles == [i \in 1..Len(sent) |-> AsyncBroadcast(c, sent[i], src)]
    IN  handles \o [i \in 1..Len(handles) |-> Wait(handles[i])]

\* torch.empty(value.size, dtype=value.dtype, device=value.device)
Empty(meta) == Tensor(meta.device, meta.dtype, meta.size, "empty")

\* The receiver's loop over metadata_list: the buffers it broadcasts, in order.
ReceiverBuffers(metadata_list) ==
    LET metas == SelectSeq(metadata_list, IsMeta)
        bufs == [i \in 1..Len(metas) |-> Empty(metas[i][2].v)]
    IN  SelectSeq(bufs, LAMBDA t : Numel(t.size) # 0)

ReceiverCalls(c, metadata_list, src) ==
    LET bufs == ReceiverBuffers(metadata_list)
        handles == [i \in 1..Len(bufs) |-> AsyncBroadcast(c, bufs[i], src)]
    IN  handles \o [i \in 1..Len(handles) |-> Wait(handles[i])]

\* The mapping the receiver builds; the k-th buffer it broadcasts is filled by
\* the k-th payload the source broadcasts.
ReceiverDict(metadata_list, payloads) ==
    [i \in 1..Len(metadata_list) |->
        IF IsMeta(metadata_list[i])
        THEN LET meta == metadata_list[i][2].v
                 k == Len(ReceiverBuffers(SubSeq(metadata_list, 1, i)))
             IN  <<metadata_list[i][1],
                   Val("tensor",
                       IF Numel(meta.size) = 0 THEN Empty(meta)
                       ELSE Tensor(meta.device, meta.dtype, meta.size,
                                   IF k <= Len(payloads) THEN payloads[k].data
                                   ELSE "never_filled"))>>
        ELSE metadata_list[i]]

\* torch.distributed.is_initialized(): a coordinator exists only after
\* init_process_group, and destroy() leaves the default group in place.
dist_is_initialized == TRUE

\* What the object broadcast from local rank gsrc delivers: it is sent by the
\* process at self.ranks[gsrc], which holds the metadata only if it is the
\* process of global rank gsrc and otherwise passed None like every receiver.
Delivered(c, gsrc, metadata_list) ==
    IF PyInRange(c.ranks, gsrc) /\ PyIndex(c.ranks, gsrc) = gsrc
    THEN Val("list", metadata_list) ELSE NoneVal

\* source_dict: the mapping the source process passes to the same broadcast.
broadcast_tensor_dict(c, tensor_dict, src, source_dict) ==
    LET theirs == split_tensor_dict(source_dict)
        payloads == SelectSeq(theirs.tensor_list, LAMBDA t : Numel(t.size) # 0)
    IN
    IF ~dist_is_initialized \/ c.world_size = 1 THEN Ok(tensor_dict, <<>>)
    ELSE IF ~(src < c.world_size) THEN Raise("AssertionError: Invalid src rank", <<>>)
    ELSE IF ~PyInRange(c.ranks, src) THEN Raise("IndexError", <<>>)
    ELSE LET gsrc == PyIndex(c.ranks, src) IN
         IF c.rank = gsrc
         THEN IF tensor_dict.t # "dict"
              THEN Raise("AssertionError: Expecting a dictionary", <<>>)
              ELSE LET mine == split_tensor_dict(tensor_dict.v)
                       meta == broadcast_object(c, Val("list", mine.metadata_list), gsrc,
                                                Delivered(c, gsrc, theirs.metadata_list))
                   IN  IF meta.status = "error" THEN meta
                       ELSE Ok(tensor_dict,
                               meta.calls \o SenderCalls(c, mine.tensor_list, gsrc))
         ELSE LET meta == broadcast_object(c, NoneVal, gsrc,
                                           Delivered(c, gsrc, theirs.metadata_list))
              IN  IF meta.status = "error" THEN meta
                  ELSE IF meta.out.t # "list"
                  THEN Raise("TypeError: 'NoneType' object is not iterable", meta.calls)
                  ELSE Ok(Val("dict", ReceiverDict(meta.out.v, payloads)),
                          meta.calls \o ReceiverCalls(c, meta.out.v, gsrc))

Buf(device, dtype, size) == Val("tensor", Tensor(device, dtype, size, "payload"))
DictInputs ==
    { << <<"a", Buf("cpu", "float32", <<0, 4>>)>>, <<"b", Val("plain", "3.14")>>,
         <<"c", Buf("cuda", "float16", <<2, 2>>)>> >>,
      << <<"t", Buf("cpu", "int64", <<3>>)>> >> }

BroadcastTensorDict ==
    \E source_dict \in DictInputs, mine \in BOOLEAN, src \in SrcInputs(Self) :
        LET tensor_dict == IF mine THEN Val("dict", source_dict) ELSE NoneVal
        IN  /\ Finish("broadcast_tensor_dict", tensor_dict, src, 0,
                      broadcast_tensor_dict(Self, tensor_dict, src, source_dict))
            /\ UNCHANGED <<coord, backend, scopes, released, destroyed>>

----------------------------------------------------------------------------
\* GroupCoordinator.barrier

barrier(c) == Ok(NoneVal, <<Call("torch.barrier", c.cpu_group, -1, "")>>)

Barrier ==
    /\ Finish("barrier", NoneVal, 0, 0, barrier(Self))
    /\ UNCHANGED <<coord, backend, scopes, released, destroyed>>

----------------------------------------------------------------------------
\* GroupCoordinator.graph_capture
\* A scope is entered (the code up to the yield) and later left (the unwinding of
\* the with statements, whether the body returned or raised).

\* PyNcclCommunicator.change_state(enable, stream): sets the flag and the stream
\* for the scope and puts the old ones back when the scope ends.
ChangeStateEnter(enable, stream) == [disabled |-> ~enable, stream |-> stream]
ChangeStateExit(old) == old

\* CustomAllreduce.capture(): capture mode for the scope, the prior mode after it.
CaptureEnter == TRUE
CaptureExit(prior) == prior

\* The backend state (pynccl object, capture mode, current stream) with a scope
\* entered on `stream`, and the record of what its context managers hold.
GraphCaptureEnter(c, stream) ==
    [frame |-> [stream |-> stream,
                prev_stream |-> current_stream,
                ca_comm |-> c.ca_comm,
                ca_prior |-> ca_capturing,
                pynccl_comm |-> c.pynccl_comm,
                pynccl_old |-> pynccl_state,
                before |-> backend],
     current_stream |-> stream,
     ca_capturing |-> IF c.ca_comm = None THEN ca_capturing ELSE CaptureEnter,
     pynccl_state |-> IF c.pynccl_comm = None THEN pynccl_state
                      ELSE ChangeStateEnter(TRUE, stream)]

\* A fresh torch.cuda.Stream(), or the stream of the context passed in.
NewStream == MaxDepth + 1 + Len(scopes)
GivenStreams == {1}

EnterGraphCapture ==
    /\ Len(scopes) < MaxDepth
    /\ \E stream \in {NewStream} \cup GivenStreams :
        LET e == GraphCaptureEnter(Self, stream)
        IN  /\ scopes' = Append(scopes, e.frame)
            /\ current_stream' = e.current_stream
            /\ ca_capturing' = e.ca_capturing
            /\ pynccl_state' = e.pynccl_state
            /\ Finish("graph_capture", Val("stream", stream), 0, 0,
                      Ok(Val("GraphCaptureContext", stream), <<>>))
    /\ UNCHANGED <<coord, released, destroyed>>

GraphCaptureExitNoFinally(frame, raised) ==
    IF raised
    THEN [pynccl_state |-> pynccl_state, ca_capturing |-> ca_capturing,
          current_stream |-> current_stream]
    ELSE [pynccl_state |-> IF frame.pynccl_comm = None THEN pynccl_state
                           ELSE ChangeStateExit(frame.pynccl_old),
          ca_capturing |-> IF frame.ca_comm = None THEN ca_capturing
                           ELSE CaptureExit(frame.ca_prior),
          current_stream |-> frame.prev_stream]

\* The with statements unwind innermost first on either exit path.
GraphCaptureExit(frame, raised) ==
    [pynccl_state |-> IF frame.pynccl_comm = None THEN pynccl_state
                      ELSE ChangeStateExit(frame.pynccl_old),
     ca_capturing |-> IF frame.ca_comm = None THEN ca_capturing
                      ELSE CaptureExit(frame.ca_prior),
     current_stream |-> frame.prev_stream]

ExitGraphCapture ==
    /\ scopes # <<>>
    /\ \E raised \in BOOLEAN :
        LET frame == scopes[Len(scopes)]
            x == GraphCaptureExit(frame, raised)
        IN  /\ scopes' = SubSeq(scopes, 1, Len(scopes) - 1)
            /\ pynccl_state' = x.pynccl_state
            /\ ca_capturing' = x.ca_capturing
            /\ current_stream' = x.current_stream
            /\ Finish("graph_capture_exit", Val("scope", frame), 0, 0,
                      IF raised THEN Raise("raised in the body", <<>>)
                      ELSE Ok(NoneVal, <<>>))
    /\ UNCHANGED <<coord, released, destroyed>>

----------------------------------------------------------------------------
\* GroupCoordinator.destroy

DestroyCallsUnguarded(c) ==
    <<Call("torch.destroy_process_group", c.device_group, -1, ""),
      Call("torch.destroy_process_group", c.cpu_group, -1, "")>>

DestroyCalls(c) ==
    (IF c.device_group # None
     THEN <<Call("torch.destroy_process_group", c.device_group, -1, "")>> ELSE <<>>)
    \o (IF c.cpu_group # None
        THEN <<Call("torch.destroy_process_group", c.cpu_group, -1, "")>> ELSE <<>>)

DestroyKeepsHostGroup ==
    LET cs == <<Call("torch.destroy_process_group", device_group, -1, "")>>
    IN  /\ device_group # None
        /\ Finish("destroy", NoneVal, 0, 0, Ok(NoneVal, cs))
        /\ released' = [released EXCEPT !["dev"] = @ + 1]
        /\ device_group' = None
        /\ pynccl_comm' = None
        /\ ca_comm' = None
        /\ destroyed' = TRUE
        /\ UNCHANGED <<rank, ranks, world_size, rank_in_group, cpu_group,
                       shm_broadcaster, backend, scopes>>

Destroy ==
    LET cs == DestroyCalls(Self)
    IN  /\ Finish("destroy", NoneVal, 0, 0, Ok(NoneVal, cs))
        /\ released' = [g \in {"dev", "cpu"} |->
                            released[g] + Cardinality({i \in 1..Len(cs) :
                                                         TorchGroup(cs[i].group) = g})]
        /\ device_group' = None
        /\ cpu_group' = None
        /\ pynccl_comm' = None
        /\ ca_comm' = None
        /\ destroyed' = TRUE
        /\ UNCHANGED <<rank, ranks, world_size, rank_in_group, shm_broadcaster,
                       backend, scopes>>

----------------------------------------------------------------------------
Next ==
    \/ AllReduce
    \/ AllGather
    \/ Gather
    \/ Broadcast
    \/ BroadcastObject
    \/ BroadcastObjectList
    \/ BroadcastTensorDict
    \/ Barrier
    \/ EnterGraphCapture
    \/ ExitGraphCapture
    \/ Destroy

Spec == Init /\ [][Next]_vars

----------------------------------------------------------------------------
\* One broadcast_tensor_dict exchange as every member of the group runs it: the
\* process at local rank src passes the mapping, every other member passes None.

KeyNames == <<"a", "b", "c", "d", "e">>
\* A plain value, and buffers on the host and on the device with and without
\* elements.
ValueInputs ==
    {Val("plain", "3.14"),
     Buf("cpu", "int64", <<3>>), Buf("cuda", "float16", <<2, 2>>),
     Buf("cpu", "float32", <<0, 4>>), Buf("cuda", "float16", <<0>>)}
\* Each buffer's content is named after its key.
Item(key, value) ==
    IF value.t = "tensor"
    THEN <<key, Val("tensor", [value.v EXCEPT !.data = key])>>
    ELSE <<key, value>>
TensorDictInputs ==
    UNION {{[i \in 1..n |-> Item(KeyNames[i], f[i])] : f \in [1..n -> ValueInputs]} :
           n \in 0..MaxKeys}

\* The coordinator of the same group in the process of global rank r.
Member(r) == [Self EXCEPT !.rank = r, !.rank_in_group = IndexOf(ranks, r)]

Exchange ==
    /\ op.name = "__init__"
    /\ \E source_dict \in TensorDictInputs, src \in SrcInputs(Self) :
        LET passes(r) == IF PyInRange(ranks, src) /\ PyIndex(ranks, src) = r
                         THEN Val("dict", source_dict) ELSE NoneVal
            outcome == [r \in SeqRange(ranks) |->
                           broadcast_tensor_dict(Member(r), passes(r), src, source_dict)]
        IN  /\ peers' = outcome
            /\ op' = [name |-> "broadcast_tensor_dict", in |-> Val("dict", source_dict),
                      src |-> src, dim |-> 0, status |-> outcome[rank].status,
                      err |-> outcome[rank].err, out |-> outcome[rank].out]
            /\ calls' = outcome[rank].calls
    /\ UNCHANGED <<coord, backend, scopes, released, destroyed, registry, dist, pc>>

ExchangeSpec == Init /\ [][Exchange]_vars

----------------------------------------------------------------------------
\* The module-level registry (the globals below _ENABLE_CUSTOM_ALL_REDUCE and
\* the functions that build, read and reset them), in a process that has
\* constructed no GroupCoordinator.

----------------------------------------------------------------------------
\* One gather or all_gather as every member of the group runs it with the same
\* arguments, over inputs of every dimensionality up to MaxDims, every dim and
\* every dst around the valid ranges.

\* One broadcast_tensor_dict exchange step by step: every member is a process
\* that issues its backend calls in order and is suspended in a blocking call
\* until the backend completes it. A collective on a group completes for a
\* member once every member has issued its collective of the same position on
\* that group, of the same kind and source.

Collective(call) == call.fn \in {"torch.broadcast_object_list", "torch.broadcast"}
OnGroup(cs, g) == SelectSeq(cs, LAMBDA c : Collective(c) /\ c.group = g)
CountOf(cs, fn) == Len(SelectSeq(cs, LAMBDA c : c.fn = fn))

\* The calls member m has issued so far.
Issued(m) == SubSeq(peers[m].calls, 1, pc[m].issued)

\* Every member has issued the j-th collective on call's group, and it matches.
AllIssued(call, j) ==
    \A m \in DOMAIN peers :
        LET theirs == OnGroup(Issued(m), call.group)
        IN  /\ Len(theirs) >= j
            /\ theirs[j].fn = call.fn
            /\ theirs[j].peer = call.peer

\* The position among cs of the asynchronous broadcast the wait at k joins.
BroadcastOf(cs, k) ==
    CHOOSE b \in 1..k :
        /\ cs[b].fn = "torch.broadcast"
        /\ CountOf(SubSeq(cs, 1, b), "torch.broadcast")
              = CountOf(SubSeq(cs, 1, k), "handle.wait")

\* ShmRingBufferIO.broadcast_object: the writer (rank_in_group 0) enqueues and
\* goes on; a reader is suspended until the writer has enqueued.
ShmCompleted(r) ==
    \/ Member(r).rank_in_group = 0
    \/ \E w \in DOMAIN peers :
          /\ Member(w).rank_in_group = 0
          /\ CountOf(Issued(w), "shm.broadcast_object") > 0

\* The k-th call of member r has returned control to r.
Completed(r, k) ==
    LET cs == peers[r].calls
        at(i) == Len(OnGroup(SubSeq(cs, 1, i), cs[i].group))
    IN  CASE cs[k].fn = "torch.broadcast" -> TRUE   \* async_op=True
          [] cs[k].fn = "torch.broadcast_object_list" -> AllIssued(cs[k], at(k))
          [] cs[k].fn = "handle.wait" ->
                AllIssued(cs[BroadcastOf(cs, k)], at(BroadcastOf(cs, k)))
          [] cs[k].fn = "shm.broadcast_object" -> ShmCompleted(r)

\* Every member calls broadcast_tensor_dict with the same src; the process at
\* local rank src passes the mapping.
Begin ==
    /\ op.name = "__init__"
    /\ \E source_dict \in DictInputs, src \in SrcInputs(Self) :
        LET passes(r) == IF PyInRange(ranks, src) /\ PyIndex(ranks, src) = r
                         THEN Val("dict", source_dict) ELSE NoneVal
        IN  /\ peers' = [r \in SeqRange(ranks) |->
                            broadcast_tensor_dict(Member(r), passes(r), src, source_dict)]
            /\ pc' = [r \in SeqRange(ranks) |-> [issued |-> 0, state |-> "running"]]
            /\ op' = [name |-> "broadcast_tensor_dict", in |-> Val("dict", source_dict),
                      src |-> src, dim |-> 0, status |-> "running", err |-> "",
                      out |-> NoneVal]
    /\ UNCHANGED <<coord, backend, scopes, released, destroyed, calls, registry, dist>>

\* Member r goes on once its last call has completed: it issues its next call,
\* or, having none left, returns or raises.
Proceed(r) ==
    /\ r \in DOMAIN pc
    /\ pc[r].state = "running"
    /\ IF pc[r].issued = 0 THEN TRUE ELSE Completed(r, pc[r].issued)
    /\ pc' = [pc EXCEPT ![r] =
                 IF pc[r].issued < Len(peers[r].calls)
                 THEN [issued |-> pc[r].issued + 1, state |-> "running"]
                 ELSE [issued |-> pc[r].issued,
                       state |-> IF peers[r].status = "ok" THEN "returned"
                                 ELSE "raised"]]
    /\ UNCHANGED <<coord, backend, scopes, released, destroyed, op, calls,
                   registry, dist, peers>>

ProtocolNext == Begin \/ \E r \in 0..(NumRanks - 1) : Proceed(r)

\* One process per rank: a member that can go on eventually does.
ProtocolSpec ==
    Init /\ [][ProtocolNext]_vars /\ \A r \in 0..(NumRanks - 1) : WF_vars(Proceed(r))

----------------------------------------------------------------------------

MaxDims == 3

\* A tensor of n dimensions has the shape (2, 3, ..., n + 1).
ShapeInputs ==
    {Tensor("cuda", "float16", [i \in 1..n |-> i + 1], "x") : n \in 1..MaxDims}
DimRange == -(MaxDims + 1)..(MaxDims + 1)
RankRange(c) == -(c.world_size + 1)..(c.world_size + 1)

\* The members' outcomes go to peers, this process's outcome to op and calls.
Collected(name, input, at, dim, outcome) ==
    /\ peers' = outcome
    /\ op' = [name |-> name, in |-> Val("tensor", input), src |-> at, dim |-> dim,
              status |-> outcome[rank].status, err |-> outcome[rank].err,
              out |-> outcome[rank].out]
    /\ calls' = outcome[rank].calls
    /\ UNCHANGED <<coord, backend, scopes, released, destroyed, registry, dist, pc>>

GatherOnce ==
    /\ op.name = "__init__"
    /\ \E input \in ShapeInputs, dst \in RankRange(Self), dim \in DimRange :
        Collected("gather", input, dst, dim,
                  [r \in SeqRange(ranks) |-> gather(Member(r), input, dst, dim)])

AllGatherOnce ==
    /\ op.name = "__init__"
    /\ \E input \in ShapeInputs, dim \in DimRange :
        Collected("all_gather", input, 0, dim,
                  [r \in SeqRange(ranks) |-> all_gather(Member(r), input, dim)])

GatherNext == GatherOnce \/ AllGatherOnce

GatherSpec == Init /\ [][GatherNext]_vars

\* list(range(start, stop, step)) for a positive step
PyRange(start, stop, step) ==
    LET n == IF stop > start THEN (stop - start + step - 1) \div step ELSE 0
    IN  [k \in 1..n |-> start + (k - 1) * step]

\* torch.distributed.new_group(ranks, backend=...)
NewGroup(backend_name, group_ranks) == Call("torch.new_group", backend_name, -1, group_ranks)

\* The two new_group calls each pass of a group-building loop makes.
NewGroupCalls(groups, backend_name) ==
    [k \in 1..(2 * Len(groups)) |->
        NewGroup(IF k % 2 = 1 THEN backend_name ELSE "gloo", groups[(k + 1) \div 2])]

\* No coordinator object exists in this process.
NoCoordinator ==
    /\ rank = 0 /\ ranks = <<>> /\ world_size = 0 /\ rank_in_group = 0
    /\ device_group = None /\ cpu_group = None
    /\ pynccl_comm = None /\ ca_comm = None /\ shm_broadcaster = None
    /\ pynccl_state = PyNcclInit /\ ca_capturing = FALSE /\ current_stream = 0
    /\ scopes = <<>> /\ released = [g \in {"dev", "cpu"} |-> 0]
    /\ destroyed = FALSE

\* The process as launched: torch.distributed not initialised; the launcher's
\* world size and rank; the platform (is_hip()).
Launched(ws, r, hip) ==
    [initialized |-> FALSE, world_size |-> ws, rank |-> r, backend |-> None,
     hip |-> hip, builds |-> 0]

RegistryInit ==
    \E ws \in 1..MaxWorld, hip \in BOOLEAN :
        \E r \in 0..(ws - 1) :
            /\ NoCoordinator
            /\ registry = RegistryUnset
            /\ dist = Launched(ws, r, hip)
            /\ peers = <<>>
            /\ pc = <<>>
            /\ op = [name |-> "__import__", in |-> NoneVal, src |-> 0, dim |-> 0,
                     status |-> "ok", err |-> "", out |-> NoneVal]
            /\ calls = <<>>

\* A registry function's outcome: as Ok/Raise, with the registry it leaves.
Leaves(res, reg) ==
    [status |-> res.status, err |-> res.err, out |-> res.out, calls |-> res.calls,
     reg |-> reg]

\* Every registry function records its name, its arguments, the registry it
\* found and its outcome.
RegistryFinish(name, tp, pp, res) ==
    /\ op' = [name |-> name,
              in |-> Val("args", [tp |-> tp, pp |-> pp, before |-> registry]),
              src |-> 0, dim |-> 0,
              status |-> res.status, err |-> res.err, out |-> res.out]
    /\ calls' = res.calls
    /\ registry' = res.reg
    /\ UNCHANGED <<coord, backend, scopes, released, destroyed, peers, pc>>

EnvsLocalRank == 0   \* envs.LOCAL_RANK

\* The body under "if not torch.distributed.is_initialized()": the default
\* process group, the gloo world group, the local rank and the warm-up.
InitProcessGroup(reg, d, distributed_init_method, local_rank) ==
    LET world == Group("nccl", PyRange(0, d.world_size, 1), 0)
        cpu == Group("gloo", PyRange(0, d.world_size, 1), 0)
        lr == IF local_rank # -1 THEN local_rank
              ELSE IF distributed_init_method = "env://" THEN EnvsLocalRank
              ELSE d.rank
    IN  Leaves(Ok(NoneVal,
                  << Call("torch.init_process_group", "nccl", -1, d.world_size),
                     NewGroup("gloo", cpu.ranks),
                     Call("torch.all_reduce", "WORLD", -1, "warmup") >>),
               [reg EXCEPT !.DEVICE_WORLD_GROUP = world,
                           !.CPU_WORLD_GROUP = cpu,
                           !.LOCAL_RANK = lr])

InitDistributedEnvironmentUnguarded(reg, d, distributed_init_method, local_rank) ==
    InitProcessGroup(reg, d, distributed_init_method, local_rank)
init_distributed_environment(reg, d, distributed_init_method, local_rank) ==
    IF d.initialized THEN Leaves(Ok(NoneVal, <<>>), reg)
    ELSE InitProcessGroup(reg, d, distributed_init_method, local_rank)

InitDistributedEnvironment ==
    \E method \in {"env://", "tcp://"}, local_rank \in {-1, 0} :
        /\ RegistryFinish("init_distributed_environment", 0, 0,
                          init_distributed_environment(registry, dist, method, local_rank))
        /\ dist' = [dist EXCEPT !.initialized = TRUE, !.backend = "nccl"]

set_custom_all_reduce(reg, enable) ==
    Leaves(Ok(NoneVal, <<>>), [reg EXCEPT !.ENABLE_CUSTOM_ALL_REDUCE = enable])

SetCustomAllReduce ==
    \E enable \in BOOLEAN :
        /\ RegistryFinish("set_custom_all_reduce", 0, 0,
                          set_custom_all_reduce(registry, enable))
        /\ UNCHANGED dist

\* The tensor groups the first loop builds and the pipeline groups the second.
TensorGroupsFromZero(ws, tp) ==
    [i \in 1..(ws \div tp) |-> PyRange(0, tp, 1)]
TensorGroups(ws, tp) ==
    [i \in 1..(ws \div tp) |-> PyRange((i - 1) * tp, i * tp, 1)]
PipelineGroupsStrideBySize(ws, pp) ==
    [i \in 1..(ws \div pp) |-> PyRange(i - 1, ws, pp)]
PipelineGroups(ws, pp) ==
    LET num_pipeline_model_parallel_groups == ws \div pp
    IN  [i \in 1..num_pipeline_model_parallel_groups |->
            PyRange(i - 1, ws, num_pipeline_model_parallel_groups)]

\* if rank in ranks: ... over the passes of a loop; the last pass that holds
\* the rank decides, None if no pass does.
Membership(groups, r) ==
    IF \E i \in 1..Len(groups) : r \in SeqRange(groups[i])
    THEN OwnRanks(groups, r) ELSE <<>>

WorldSizeIndivisible(ws, tp, pp) == ws % tp # 0 \/ ws % pp # 0
\* world_size != tensor_model_parallel_size * pipeline_model_parallel_size
WorldSizeMismatch(ws, tp, pp) == ws # tp * pp

initialize_model_parallel(reg, d, tp, pp) ==
    IF ~d.initialized THEN Leaves(Raise("AssertionError", <<>>), reg)
    ELSE IF WorldSizeMismatch(d.world_size, tp, pp)
    THEN Leaves(Raise("RuntimeError: world_size is not equal to tp x pp", <<>>), reg)
    ELSE IF reg.TP_DEVICE_GROUP # NoGroup
    THEN Leaves(Raise("AssertionError: tensor model parallel group is already initialized",
                      <<>>), reg)
    ELSE
    LET build == d.builds + 1
        tgroups == TensorGroups(d.world_size, tp)
        tmine == Membership(tgroups, d.rank)
        tcalls == NewGroupCalls(tgroups, d.backend)
        reg1 == IF tmine = <<>> THEN reg
                ELSE [reg EXCEPT !.TP_DEVICE_GROUP = Group(d.backend, tmine, build),
                                 !.TP_CPU_GROUP = Group("gloo", tmine, build)]
        tp_pynccl == tp > 1 /\ ~d.hip
        reg2 == IF tp_pynccl
                THEN [reg1 EXCEPT !.TP_PYNCCL_COMMUNICATOR =
                         Comm("PyNcclCommunicator", reg1.TP_CPU_GROUP, reg1.LOCAL_RANK)]
                ELSE reg1
        calls2 == tcalls \o
                  (IF tp_pynccl
                   THEN <<Call("PyNcclCommunicator", reg1.TP_CPU_GROUP, -1, reg1.LOCAL_RANK)>>
                   ELSE <<>>)
        reg3 == IF reg2.ENABLE_CUSTOM_ALL_REDUCE
                THEN [reg2 EXCEPT !.TP_CA_COMMUNICATOR =
                         Comm("CustomAllreduce", reg2.TP_CPU_GROUP, reg2.LOCAL_RANK)]
                ELSE reg2
        calls3 == calls2 \o
                  (IF reg2.ENABLE_CUSTOM_ALL_REDUCE
                   THEN <<Call("CustomAllreduce", reg2.TP_CPU_GROUP, -1, reg2.LOCAL_RANK)>>
                   ELSE <<>>)
    IN
    IF reg3.PP_DEVICE_GROUP # NoGroup
    THEN Leaves(Raise("AssertionError: pipeline model parallel group is already initialized",
                      calls3), reg3)
    ELSE
    LET pgroups == PipelineGroups(d.world_size, pp)
        pmine == Membership(pgroups, d.rank)
        calls4 == calls3 \o NewGroupCalls(pgroups, d.backend)
        reg4 == IF pmine = <<>> THEN reg3
                ELSE [reg3 EXCEPT !.PP_DEVICE_GROUP = Group(d.backend, pmine, build),
                                  !.PP_CPU_GROUP = Group("gloo", pmine, build),
                                  !.PP_GLOBAL_RANKS = Val("list", pmine)]
    IN
    IF ~(pp > 1 /\ ~d.hip) THEN Leaves(Ok(NoneVal, calls4), reg4)
    \* PyNcclCommunicator is a local name, bound by the import in the tensor branch.
    ELSE IF ~tp_pynccl
    THEN Leaves(Raise("UnboundLocalError: PyNcclCommunicator", calls4), reg4)
    ELSE Leaves(Ok(NoneVal,
                   calls4 \o <<Call("PyNcclCommunicator", reg4.PP_CPU_GROUP, -1,
                                    reg4.LOCAL_RANK)>>),
                [reg4 EXCEPT !.PP_PYNCCL_COMMUNICATOR =
                    Comm("PyNcclCommunicator", reg4.PP_CPU_GROUP, reg4.LOCAL_RANK)])

\* A run that builds groups is one of at most MaxInits.
Builds(res) == \E i \in 1..Len(res.calls) : res.calls[i].fn = "torch.new_group"
Built(res) ==
    /\ Builds(res) => dist.builds < MaxInits
    /\ dist' = [dist EXCEPT !.builds = IF Builds(res) THEN @ + 1 ELSE @]

\* tensor_model_parallel_size and pipeline_model_parallel_size: every pair
\* that fits some world of at most ws ranks, so most pairs fit not this one.
SizeInputs(ws) == {s \in (1..ws) \X (1..ws) : s[1] * s[2] <= ws}

InitializeModelParallelWith(sizes) ==
    \E s \in sizes :
        LET tp == s[1]
            pp == s[2]
            res == initialize_model_parallel(registry, dist, tp, pp)
        IN  /\ Built(res)
            /\ RegistryFinish("initialize_model_parallel", tp, pp, res)

InitializeModelParallel == InitializeModelParallelWith(SizeInputs(MaxWorld))

model_parallel_is_initialized(reg) ==
    reg.TP_DEVICE_GROUP # NoGroup /\ reg.PP_DEVICE_GROUP # NoGroup

get_world_group(reg) ==
    IF reg.WORLD = None THEN Raise("AssertionError: world group is not initialized", <<>>)
    ELSE Ok(Val("GroupCoordinator", reg.WORLD), <<>>)

get_tp_group(reg) ==
    IF reg.TP = None
    THEN Raise("AssertionError: tensor model parallel group is not initialized", <<>>)
    ELSE Ok(Val("GroupCoordinator", reg.TP), <<>>)

get_pp_group(reg) ==
    IF reg.PP = None
    THEN Raise("AssertionError: pipeline model parallel group is not initialized", <<>>)
    ELSE Ok(Val("GroupCoordinator", reg.PP), <<>>)

\* with get_tp_group().graph_capture() as context,
\*      get_pp_group().graph_capture(context): yield context
graph_capture(reg) ==
    IF get_tp_group(reg).status = "error" THEN get_tp_group(reg)
    ELSE IF get_pp_group(reg).status = "error" THEN get_pp_group(reg)
    ELSE Ok(Val("GraphCaptureContext", "stream"), <<>>)

get_pp_pynccl_communicator(reg) == Ok(Val("comm", reg.PP_PYNCCL_COMMUNICATOR), <<>>)
get_tp_pynccl_communicator(reg) == Ok(Val("comm", reg.TP_PYNCCL_COMMUNICATOR), <<>>)
get_tp_ca_communicator(reg) == Ok(Val("comm", reg.TP_CA_COMMUNICATOR), <<>>)
get_local_rank(reg) == Ok(Val("int", reg.LOCAL_RANK), <<>>)

GetCpuWorldGroupUnchecked(reg) == Ok(Val("group", reg.CPU_WORLD_GROUP), <<>>)
get_cpu_world_group(reg) ==
    IF reg.CPU_WORLD_GROUP = NoGroup
    THEN Raise("AssertionError: CPU world group is not initialized", <<>>)
    ELSE Ok(Val("group", reg.CPU_WORLD_GROUP), <<>>)

get_tensor_model_parallel_group(reg) ==
    IF reg.TP_DEVICE_GROUP = NoGroup
    THEN Raise("AssertionError: tensor model parallel group is not initialized", <<>>)
    ELSE Ok(Val("group", reg.TP_DEVICE_GROUP), <<>>)

get_tensor_model_parallel_cpu_group(reg) ==
    IF reg.TP_CPU_GROUP = NoGroup
    THEN Raise("AssertionError: tensor model parallel cpu group is not initialized", <<>>)
    ELSE Ok(Val("group", reg.TP_CPU_GROUP), <<>>)

get_pipeline_model_parallel_group(reg) ==
    IF reg.PP_DEVICE_GROUP = NoGroup
    THEN Raise("AssertionError: pipeline model parallel group is not initialized", <<>>)
    ELSE Ok(Val("group", reg.PP_DEVICE_GROUP), <<>>)

get_pipeline_model_parallel_cpu_group(reg) ==
    IF reg.PP_CPU_GROUP = NoGroup
    THEN Raise("AssertionError: pipeline model parallel cpu group is not initialized", <<>>)
    ELSE Ok(Val("group", reg.PP_CPU_GROUP), <<>>)

\* torch.distributed.get_world_size(group=...), get_rank(group=...)
GroupSize(g) == Len(g.ranks)
GroupRank(g, r) == IF r \in SeqRange(g.ranks) THEN IndexOf(g.ranks, r) ELSE -1

get_tensor_model_parallel_world_size(reg) ==
    LET g == get_tensor_model_parallel_group(reg)
    IN  IF g.status = "error" THEN g ELSE Ok(Val("int", GroupSize(g.out.v)), <<>>)

get_pipeline_model_parallel_world_size(reg) ==
    LET g == get_pipeline_model_parallel_group(reg)
    IN  IF g.status = "error" THEN g ELSE Ok(Val("int", GroupSize(g.out.v)), <<>>)

get_tensor_model_parallel_rank(reg, d) ==
    LET g == get_tensor_model_parallel_group(reg)
    IN  IF g.status = "error" THEN g ELSE Ok(Val("int", GroupRank(g.out.v, d.rank)), <<>>)

get_pipeline_model_parallel_rank(reg, d) ==
    LET g == get_pipeline_model_parallel_group(reg)
    IN  IF g.status = "error" THEN g ELSE Ok(Val("int", GroupRank(g.out.v, d.rank)), <<>>)

SrcRankIsOwnRank(reg, d) ==
    LET local_world_size == get_tensor_model_parallel_world_size(reg)
    IN  IF ~d.initialized THEN Raise("torch: default process group is not initialized", <<>>)
        ELSE IF local_world_size.status = "error" THEN local_world_size
        ELSE Ok(Val("int", d.rank), <<>>)
get_tensor_model_parallel_src_rank(reg, d) ==
    LET local_world_size == get_tensor_model_parallel_world_size(reg)
    IN  IF ~d.initialized THEN Raise("torch: default process group is not initialized", <<>>)
        ELSE IF local_world_size.status = "error" THEN local_world_size
        ELSE Ok(Val("int", (d.rank \div local_world_size.out.v) * local_world_size.out.v),
                <<>>)

NotInitializedPP == Raise("AssertionError: Pipeline parallel group is not initialized", <<>>)

get_pipeline_model_parallel_first_rank(reg) ==
    IF reg.PP_GLOBAL_RANKS = NoList THEN NotInitializedPP
    ELSE Ok(Val("int", PyIndex(reg.PP_GLOBAL_RANKS.v, 0)), <<>>)

get_pipeline_model_parallel_last_rank(reg) ==
    LET ws == get_pipeline_model_parallel_world_size(reg)
    IN  IF reg.PP_GLOBAL_RANKS = NoList THEN NotInitializedPP
        ELSE IF ws.status = "error" THEN ws
        ELSE Ok(Val("int", PyIndex(reg.PP_GLOBAL_RANKS.v, ws.out.v - 1)), <<>>)

get_pipeline_model_parallel_next_rank(reg, d) ==
    LET rank_in_pipeline == get_pipeline_model_parallel_rank(reg, d)
        ws == get_pipeline_model_parallel_world_size(reg)
    IN  IF reg.PP_GLOBAL_RANKS = NoList THEN NotInitializedPP
        ELSE IF rank_in_pipeline.status = "error" THEN rank_in_pipeline
        ELSE IF ws.status = "error" THEN ws
        ELSE Ok(Val("int", PyIndex(reg.PP_GLOBAL_RANKS.v,
                                   (rank_in_pipeline.out.v + 1) % ws.out.v)), <<>>)

get_pipeline_model_parallel_prev_rank(reg, d) ==
    LET rank_in_pipeline == get_pipeline_model_parallel_rank(reg, d)
        ws == get_pipeline_model_parallel_world_size(reg)
    IN  IF reg.PP_GLOBAL_RANKS = NoList THEN NotInitializedPP
        ELSE IF rank_in_pipeline.status = "error" THEN rank_in_pipeline
        ELSE IF ws.status = "error" THEN ws
        ELSE Ok(Val("int", PyIndex(reg.PP_GLOBAL_RANKS.v,
                                   (rank_in_pipeline.out.v - 1) % ws.out.v)), <<>>)

\* The accessors that raise on an entry that is not set, and those that return
\* whatever the entry holds.
Asserting ==
    {"get_world_group", "get_tp_group", "get_pp_group", "get_cpu_world_group",
     "get_tensor_model_parallel_group", "get_tensor_model_parallel_cpu_group",
     "get_pipeline_model_parallel_group", "get_pipeline_model_parallel_cpu_group",
     "get_tensor_model_parallel_world_size", "get_pipeline_model_parallel_world_size",
     "get_tensor_model_parallel_rank", "get_pipeline_model_parallel_rank",
     "get_tensor_model_parallel_src_rank",
     "get_pipeline_model_parallel_first_rank", "get_pipeline_model_parallel_last_rank",
     "get_pipeline_model_parallel_next_rank", "get_pipeline_model_parallel_prev_rank",
     "graph_capture"}
Returning ==
    {"get_pp_pynccl_communicator", "get_tp_pynccl_communicator",
     "get_tp_ca_communicator", "get_local_rank", "model_parallel_is_initialized"}

Accessor(name, reg, d) ==
    CASE name = "get_world_group" -> get_world_group(reg)
      [] name = "get_tp_group" -> get_tp_group(reg)
      [] name = "get_pp_group" -> get_pp_group(reg)
      [] name = "graph_capture" -> graph_capture(reg)
      [] name = "get_cpu_world_group" -> get_cpu_world_group(reg)
      [] name = "get_tensor_model_parallel_group" -> get_tensor_model_parallel_group(reg)
      [] name = "get_tensor_model_parallel_cpu_group" ->
            get_tensor_model_parallel_cpu_group(reg)
      [] name = "get_pipeline_model_parallel_group" ->
            get_pipeline_model_parallel_group(reg)
      [] name = "get_pipeline_model_parallel_cpu_group" ->
            get_pipeline_model_parallel_cpu_group(reg)
      [] name = "get_tensor_model_parallel_world_size" ->
            get_tensor_model_parallel_world_size(reg)
      [] name = "get_pipeline_model_parallel_world_size" ->
            get_pipeline_model_parallel_world_size(reg)
      [] name = "get_tensor_model_parallel_rank" -> get_tensor_model_parallel_rank(reg, d)
      [] name = "get_pipeline_model_parallel_rank" ->
            get_pipeline_model_parallel_rank(reg, d)
      [] name = "get_tensor_model_parallel_src_rank" ->
            get_tensor_model_parallel_src_rank(reg, d)
      [] name = "get_pipeline_model_parallel_first_rank" ->
            get_pipeline_model_parallel_first_rank(reg)
      [] name = "get_pipeline_model_parallel_last_rank" ->
            get_pipeline_model_parallel_last_rank(reg)
      [] name = "get_pipeline_model_parallel_next_rank" ->
            get_pipeline_model_parallel_next_rank(reg, d)
      [] name = "get_pipeline_model_parallel_prev_rank" ->
            get_pipeline_model_parallel_prev_rank(reg, d)
      [] name = "get_pp_pynccl_communicator" -> get_pp_pynccl_communicator(reg)
      [] name = "get_tp_pynccl_communicator" -> get_tp_pynccl_communicator(reg)
      [] name = "get_tp_ca_communicator" -> get_tp_ca_communicator(reg)
      [] name = "get_local_rank" -> get_local_rank(reg)
      [] name = "model_parallel_is_initialized" ->
            Ok(Val("bool", model_parallel_is_initialized(reg)), <<>>)

\* The process reads the registry through every accessor, one after the other;
\* none of them writes it. The outcome of each is recorded under its name.
Access ==
    /\ RegistryFinish("accessors", 0, 0,
                      Leaves(Ok(Val("outcomes",
                                    [name \in Asserting \cup Returning |->
                                        Accessor(name, registry, dist)]), <<>>),
                             registry))
    /\ UNCHANGED dist

EnsureAlwaysInitializes(reg, d, tp, pp) == initialize_model_parallel(reg, d, tp, pp)
ensure_model_parallel_initialized(reg, d, tp, pp) ==
    IF ~d.initialized
    THEN Leaves(Raise("torch: default process group is not initialized", <<>>), reg)
    ELSE IF ~model_parallel_is_initialized(reg) THEN initialize_model_parallel(reg, d, tp, pp)
    ELSE IF get_tensor_model_parallel_world_size(reg).out.v # tp
    THEN Leaves(Raise("AssertionError: tensor parallel group already initialized, but of unexpected size",
                      <<>>), reg)
    ELSE IF get_pipeline_model_parallel_world_size(reg).out.v # pp
    THEN Leaves(Raise("AssertionError: pipeline parallel group already initialized, but of unexpected size",
                      <<>>), reg)
    ELSE Leaves(Ok(NoneVal, <<>>), reg)

EnsureModelParallelInitialized ==
    \E s \in SizeInputs(MaxWorld) :
        LET tp == s[1]
            pp == s[2]
            res == ensure_model_parallel_initialized(registry, dist, tp, pp)
        IN  /\ Built(res)
            /\ RegistryFinish("ensure_model_parallel_initialized", tp, pp, res)

DestroyProcessGroup(g) ==
    IF g # NoGroup THEN <<Call("torch.destroy_process_group", g, -1, "")>> ELSE <<>>

DestroyKeepsPipelineGroup(reg) ==
    Leaves(Ok(NoneVal,
              DestroyProcessGroup(reg.TP_DEVICE_GROUP)
                  \o DestroyProcessGroup(reg.TP_CPU_GROUP)),
           [reg EXCEPT !.TP_DEVICE_GROUP = NoGroup,
                       !.TP_CPU_GROUP = NoGroup,
                       !.TP_PYNCCL_COMMUNICATOR = NoComm])
destroy_model_parallel(reg) ==
    Leaves(Ok(NoneVal,
              DestroyProcessGroup(reg.TP_DEVICE_GROUP)
                  \o DestroyProcessGroup(reg.TP_CPU_GROUP)
                  \o DestroyProcessGroup(reg.PP_DEVICE_GROUP)),
           [reg EXCEPT !.TP_DEVICE_GROUP = NoGroup,
                       !.TP_CPU_GROUP = NoGroup,
                       !.TP_PYNCCL_COMMUNICATOR = NoComm,
                       !.PP_DEVICE_GROUP = NoGroup,
                       !.PP_GLOBAL_RANKS = NoList])

DestroyModelParallel ==
    /\ RegistryFinish("destroy_model_parallel", 0, 0, destroy_model_parallel(registry))
    /\ UNCHANGED dist

RegistryNext ==
    \/ InitDistributedEnvironment
    \/ SetCustomAllReduce
    \/ InitializeModelParallel
    \/ EnsureModelParallelInitialized
    \/ Access
    \/ DestroyModelParallel

RegistrySpec == RegistryInit /\ [][RegistryNext]_vars

----------------------------------------------------------------------------
\* The group topology alone: a process of a world of up to TopologyWorld ranks
\* initialises the distributed environment, calls initialize_model_parallel
\* once with any pair of sizes and then reads the accessors.

TopologyInit ==
    \E ws \in 1..TopologyWorld, hip \in BOOLEAN :
        \E r \in 0..(ws - 1) :
            LET env == init_distributed_environment(RegistryUnset, Launched(ws, r, hip),
                                                    "env://", -1)
            IN  /\ NoCoordinator
                /\ registry = env.reg
                /\ dist = Initialized(ws, r, hip)
                /\ peers = <<>>
                /\ pc = <<>>
                /\ op = [name |-> "init_distributed_environment",
                         in |-> Val("args", [tp |-> 0, pp |-> 0, before |-> RegistryUnset]),
                         src |-> 0, dim |-> 0,
                         status |-> env.status, err |-> env.err, out |-> env.out]
                /\ calls = env.calls

BuildTopology ==
    /\ op.name = "init_distributed_environment"
    /\ InitializeModelParallelWith(SizeInputs(TopologyWorld))

ReadTopology ==
    /\ op.name = "initialize_model_parallel"
    /\ Access

TopologyNext ==
    \/ BuildTopology
    \/ ReadTopology

TopologySpec == TopologyInit /\ [][TopologyNext]_vars

----------------------------------------------------------------------------
\* Fp8LinearMethod.scales_shard_indexer (fp8.py): the indexer attached to each
\* scale parameter, a 1-D tensor with one slot per output partition.

MaxShards == 4

qkv_idxs == [s \in {"q", "k", "v"} |-> CASE s = "q" -> 0 [] s = "k" -> 1 [] s = "v" -> 2]

\* param[index] on a 1-D tensor of n slots: an integer selects a slot (negative
\* ones count from the end) or is out of range, a 1-tuple indexes as its
\* element, None adds a leading axis and returns the whole tensor, a float is
\* not an index.
GetItem(n, index, loaded_weight) ==
    LET cs == <<Call("Tensor.__getitem__", None, -1, "param")>>
        at(i) == IF -n <= i /\ i < n
                 THEN Ok(Val("tuple", <<Val("slot", i % n), loaded_weight>>), cs)
                 ELSE Raise("IndexError: index out of range", cs)
    IN  CASE index.t = "int" -> at(index.v)
          [] index.t = "tuple" -> at(index.v[1])
          [] index.t = "NoneType" ->
                Ok(Val("tuple", <<Val("view", <<1, n>>), loaded_weight>>), cs)
          [] index.t = "float" ->
                Raise("IndexError: only integers, slices, ellipsis and None are valid indices", cs)

scales_shard_indexer(n, loaded_weight, shard_id) ==
    IF shard_id.t = "int" THEN GetItem(n, shard_id, loaded_weight)
    ELSE IF shard_id.t = "str"
    THEN IF shard_id.v \notin DOMAIN qkv_idxs
         THEN Raise("ValueError: Unknown shard_id", <<>>)
         ELSE GetItem(n, Val("int", qkv_idxs[shard_id.v]), loaded_weight)
    \* the ValueError of the else branch is constructed and dropped
    ELSE GetItem(n, shard_id, loaded_weight)

ShardIdInputs ==
    {Val("int", i) : i \in -(MaxShards + 1)..MaxShards}
        \cup {Val("str", s) : s \in {"q", "k", "v", "o", "gate", "0"}}
        \cup {Val("NoneType", 0), Val("float", "1.0"), Val("tuple", <<0>>)}
LoadedWeightInputs == {"scale_a", "scale_b"}

\* _create_scale_param: a scale parameter of len(output_partition_sizes) slots.
ShardInit ==
    \E n \in 1..MaxShards :
        /\ NoCoordinator
        /\ registry = RegistryUnset
        /\ dist = Launched(1, 0, FALSE)
        /\ peers = <<>>
        /\ pc = <<>>
        /\ op = [name |-> "_create_scale_param", in |-> Val("int", n), src |-> 0,
                 dim |-> 0, status |-> "ok", err |-> "", out |-> Val("param", n)]
        /\ calls = <<>>

ScalesShardIndexer ==
    /\ op.name = "_create_scale_param"
    /\ \E shard_id \in ShardIdInputs, w \in LoadedWeightInputs :
        LET res == scales_shard_indexer(op.out.v, Val("tensor", w), shard_id)
        IN  /\ op' = [name |-> "scales_shard_indexer",
                      in |-> Val("args", [param |-> op.out.v, loaded_weight |-> w,
                                          shard_id |-> shard_id]),
                      src |-> 0, dim |-> 0,
                      status |-> res.status, err |-> res.err, out |-> res.out]
            /\ calls' = res.calls
    /\ UNCHANGED <<coord, backend, scopes, released, destroyed, registry, dist, peers, pc>>

ShardSpec == ShardInit /\ [][ScalesShardIndexer]_vars

----------------------------------------------------------------------------
\* GroupCoordinator.first_rank, last_rank, next_rank, prev_rank, read on a
\* coordinator built over the tensor or the pipeline groups of a process whose
\* registry holds the same groups.

first_rank(c) == PyIndex(c.ranks, 0)
last_rank(c) == PyIndex(c.ranks, -1)
NextRankClamped(c) ==
    IF c.rank_in_group + 1 < c.world_size THEN PyIndex(c.ranks, c.rank_in_group + 1)
    ELSE PyIndex(c.ranks, -1)
next_rank(c) == PyIndex(c.ranks, (c.rank_in_group + 1) % c.world_size)
prev_rank(c) == PyIndex(c.ranks, (c.rank_in_group - 1) % c.world_size)

\* init_distributed_environment and initialize_model_parallel(tp, pp) have run
\* in a world of tp * pp ranks, and a coordinator was constructed over the
\* tensor groups or over the pipeline groups.
RingInit ==
    \E ws \in 1..TopologyWorld, hip \in BOOLEAN, over_pipeline \in BOOLEAN :
        \E r \in 0..(ws - 1), tp \in Divisors(ws) :
            LET pp == ws \div tp
                env == init_distributed_environment(RegistryUnset, Launched(ws, r, hip),
                                                    "env://", -1)
                built == initialize_model_parallel(env.reg, Initialized(ws, r, hip), tp, pp)
            IN  /\ Construct(IF over_pipeline THEN PipelineGroups(ws, pp)
                             ELSE TensorGroups(ws, tp),
                             r, TRUE, TRUE, TRUE)
                /\ registry = built.reg
                /\ dist = [Initialized(ws, r, hip) EXCEPT !.builds = 1]
                /\ peers = <<>>
                /\ pc = <<>>

\* Every member reads the four properties of the coordinator; this process also
\* reads the registry's pipeline helpers.
ReadRing ==
    /\ op.name = "__init__"
    /\ peers' = [r \in SeqRange(ranks) |->
                    [first_rank |-> first_rank(Member(r)),
                     last_rank |-> last_rank(Member(r)),
                     next_rank |-> next_rank(Member(r)),
                     prev_rank |-> prev_rank(Member(r))]]
    /\ op' = [name |-> "ring", in |-> NoneVal, src |-> 0, dim |-> 0,
              status |-> "ok", err |-> "",
              out |-> Val("ranks",
                          [first_rank |-> get_pipeline_model_parallel_first_rank(registry),
                           last_rank |-> get_pipeline_model_parallel_last_rank(registry),
                           next_rank |-> get_pipeline_model_parallel_next_rank(registry, dist),
                           prev_rank |-> get_pipeline_model_parallel_prev_rank(registry, dist)])]
    /\ UNCHANGED <<coord, backend, scopes, released, destroyed, calls, registry, dist, pc>>

RingSpec == RingInit /\ [][ReadRing]_vars

----------------------------------------------------------------------------
\* Properties.

Fns == [i \in 1..Len(calls) |-> calls[i].fn]
ValueOps == {"all_reduce", "all_gather", "gather", "broadcast", "broadcast_object",
             "broadcast_object_list", "broadcast_tensor_dict"}
Collectives == ValueOps \cup {"barrier"}
SrcCheckedFirst == {"broadcast", "broadcast_object", "broadcast_object_list"}

\* C1: with world size > 1, all_reduce tries the backends in strict precedence:
\* the custom all-reduce handle if present, and its result is returned with no
\* other backend invoked; if it is absent or returned nothing, pynccl iff it is
\* present and not disabled; otherwise torch.distributed on self.device_group
\* (the device sub-group of a coordinator that was not destroyed). The backend
\* invoked last produced the returned value and the call never raises.
AllReducePrecedence ==
    (op.name = "all_reduce" /\ world_size > 1) =>
        LET tried == IF ca_comm # None THEN <<"ca.custom_all_reduce">> ELSE <<>>
            pynccl_on == pynccl_comm # None /\ ~pynccl_state.disabled
        IN  /\ op.status = "ok"
            /\ \/ /\ ca_comm # None
                  /\ Fns = <<"ca.custom_all_reduce">>
                  /\ calls[1].buf = "out"
                  /\ op.out.v.data = "custom"
               \/ /\ pynccl_on
                  /\ Fns = tried \o <<"pynccl.all_reduce">>
                  /\ (ca_comm # None => calls[1].buf = "none")
                  /\ op.out.v.data = "pynccl"
               \/ /\ ~pynccl_on
                  /\ Fns = tried \o <<"torch.all_reduce">>
                  /\ (ca_comm # None => calls[1].buf = "none")
                  /\ calls[Len(calls)].group = device_group
                  /\ (~destroyed => calls[Len(calls)].group = "dev")
                  /\ op.out.v.data = "torch"

\* The custom all-reduce returned nothing and pynccl, enabled by a capture
\* scope, served the call.
AllReduceFellBackToPynccl ==
    /\ op.name = "all_reduce"
    /\ Fns = <<"ca.custom_all_reduce", "pynccl.all_reduce">>
    /\ op.out.v.data = "pynccl"

\* C2 as stated: with world size 1 every value-returning operation returns its
\* input unchanged, for every argument value, and invokes no backend.
BypassForEveryArgument ==
    (world_size = 1 /\ op.name \in ValueOps) =>
        op.status = "ok" /\ Same(op.out, op.in) /\ calls = <<>>

\* C2 amended: with world size 1 no value-returning operation invokes a backend;
\* all_reduce, all_gather, gather and broadcast_tensor_dict return their input
\* unchanged for every argument value; broadcast, broadcast_object and
\* broadcast_object_list do so for every src < 1 and raise the invalid-source
\* assertion for every src >= 1.
BypassForValidSrc ==
    (world_size = 1 /\ op.name \in ValueOps) =>
        /\ calls = <<>>
        /\ IF op.name \in SrcCheckedFirst /\ op.src >= 1
           THEN op.status = "error" /\ op.err = "AssertionError: Invalid src rank"
           ELSE op.status = "ok" /\ Same(op.out, op.in)

\* A single-rank coordinator returned the list passed to broadcast_object_list.
BypassReturnedInput ==
    /\ world_size = 1
    /\ op.name = "broadcast_object_list"
    /\ op.status = "ok"
    /\ Same(op.out, ListInput)
    /\ calls = <<>>

\* C3: every barrier() that executes is issued on the coordinator's host (CPU)
\* sub-group, never on a device sub-group or on the default device world group.
BarrierOnHostGroup ==
    op.name = "barrier" =>
        /\ op.status = "ok"
        /\ Len(calls) = 1
        /\ calls[1].fn = "torch.barrier"
        /\ TorchGroup(calls[1].group) = "cpu"

\* C4: the object broadcasts of the control plane (broadcast_object,
\* broadcast_object_list, the metadata phase of broadcast_tensor_dict) go through
\* the host sub-group or the shared-memory broadcaster, never the device
\* sub-group. Stated here for coordinators that were not destroyed and for
\* local source ranks in [0, world_size).
ControlPlaneOffDevice ==
    (/\ ~destroyed
     /\ op.name \in {"broadcast_object", "broadcast_object_list", "broadcast_tensor_dict"}
     /\ 0 <= op.src /\ op.src < world_size) =>
        \A i \in 1..Len(calls) :
            \/ calls[i].fn = "shm.broadcast_object"
            \/ calls[i].fn = "torch.broadcast_object_list" /\ calls[i].group = "cpu"
            \/ calls[i].fn \in {"torch.broadcast", "handle.wait"}

\* C5: with world size > 1 and a shared-memory broadcaster, broadcast_object
\* with src != 0 raises and invokes neither the broadcaster nor the host-side
\* broadcast; with src = 0 it uses the broadcaster alone. Without a broadcaster,
\* for src in [0, world_size), it issues one object broadcast on self.cpu_group
\* (the host sub-group of a coordinator that was not destroyed) from ranks[src].
BroadcastObjectRouting ==
    (op.name = "broadcast_object" /\ world_size > 1) =>
        IF shm_broadcaster # None
        THEN IF op.src # 0
             THEN op.status = "error" /\ calls = <<>>
             ELSE op.status = "ok" /\ Fns = <<"shm.broadcast_object">>
        ELSE (0 <= op.src /\ op.src < world_size) =>
                /\ op.status = "ok"
                /\ Fns = <<"torch.broadcast_object_list">>
                /\ calls[1].group = cpu_group
                /\ (~destroyed => calls[1].group = "cpu")
                /\ calls[1].peer = ranks[op.src + 1]

\* A coordinator with a broadcaster refused src = 1, a valid local rank.
ShmRefusedOtherSource ==
    /\ op.name = "broadcast_object"
    /\ world_size > 1
    /\ shm_broadcaster # None
    /\ op.src = 1
    /\ op.status = "error"
    /\ calls = <<>>

\* C6: after destroy() every collective call on the coordinator fails.
DestroyedCoordinatorFails ==
    (destroyed /\ op.name \in Collectives) => op.status = "error"

\* C7: destroy() is idempotent: each sub-group is released at most once, exactly
\* once as soon as destroy() was called, and a destroy() on a destroyed
\* coordinator issues no call and changes nothing.
DestroyIdempotent ==
    /\ [](/\ released["dev"] <= 1
          /\ released["cpu"] <= 1
          /\ destroyed => (released["dev"] = 1 /\ released["cpu"] = 1))
    /\ [][(destroyed /\ op'.name = "destroy") =>
            /\ calls' = <<>>
            /\ UNCHANGED <<coord, backend, scopes, released, destroyed>>]_vars

\* destroy() ran on a coordinator that was already destroyed.
DestroyedTwice ==
    /\ destroyed
    /\ op.name = "destroy"
    /\ calls = <<>>
    /\ released["dev"] = 1
    /\ released["cpu"] = 1

\* C8: when a graph_capture scope ends, by return or by exception, pynccl's
\* disabled flag and stream, the custom all-reduce capture mode and the current
\* stream are what they were immediately before the scope was entered.
GraphCaptureRestores ==
    op.name = "graph_capture_exit" => backend = op.in.v.before

\* A scope holding both communicators ended by an exception.
CaptureScopeRaised ==
    /\ op.name = "graph_capture_exit"
    /\ op.status = "error"
    /\ op.in.v.pynccl_comm # None
    /\ op.in.v.ca_comm # None
    /\ pynccl_state.disabled

\* C9: two graph_capture scopes are never active on one coordinator at once.
SingleCaptureScope == Len(scopes) <= 1

\* C10: outside every graph_capture scope pynccl is disabled and all_reduce
\* does not invoke it.
PyncclOnlyInCapture ==
    scopes = <<>> =>
        /\ pynccl_state.disabled
        /\ op.name = "all_reduce" =>
              \A i \in 1..Len(calls) : calls[i].fn # "pynccl.all_reduce"

\* With no scope open, a coordinator holding a pynccl communicator reduced
\* through torch.distributed.
EagerAllReduceSkipsPynccl ==
    /\ scopes = <<>>
    /\ pynccl_comm # None
    /\ op.name = "all_reduce"
    /\ Fns = <<"torch.all_reduce">>

\* The arguments of the last registry function and the registry it found.
Args == op.in.v
Before == op.in.v.before

\* The rank lists of the groups the last operation created on the device
\* backend and on gloo, in creation order.
NewGroups(on_gloo) ==
    LET made == SelectSeq(calls, LAMBDA c : c.fn = "torch.new_group"
                                            /\ (c.group = "gloo") = on_gloo)
    IN  [i \in 1..Len(made) |-> made[i].buf]
Ascending(seq) == \A j, k \in 1..Len(seq) : j < k => seq[j] < seq[k]

\* C11: for every tp, pp and world_size = tp * pp, initialize_model_parallel
\* called with no tensor group registered creates, on the device backend and again on gloo, first the world/tp tensor
\* groups, the i-th holding the consecutive ranks i*tp .. (i+1)*tp - 1, then the
\* n = world/pp pipeline groups, the i-th holding the ranks congruent to i
\* modulo n, each list ascending; for tp = 2, pp = 4 these are {0,1} {2,3} {4,5}
\* {6,7} and {0,2,4,6} {1,3,5,7}; the list depends on no rank, and the registry
\* of each rank holds the tensor and the pipeline group that contain it.
TopologyAsDocumented ==
    (/\ op.name = "initialize_model_parallel"
     /\ dist.initialized
     /\ Before.TP_DEVICE_GROUP = NoGroup
     /\ dist.world_size = Args.tp * Args.pp) =>
        LET ws == dist.world_size
            tp == Args.tp
            pp == Args.pp
            n == ws \div pp
            made == NewGroups(FALSE)
        IN  /\ NewGroups(TRUE) = made
            /\ Len(made) = (ws \div tp) + n
            /\ \A i \in 1..Len(made) : Ascending(made[i])
            /\ \A i \in 0..((ws \div tp) - 1) :
                  /\ Len(made[i + 1]) = tp
                  /\ SeqRange(made[i + 1]) = {r \in 0..(ws - 1) : r \div tp = i}
            /\ \A i \in 0..(n - 1) :
                  /\ Len(made[(ws \div tp) + i + 1]) = pp
                  /\ SeqRange(made[(ws \div tp) + i + 1]) = {r \in 0..(ws - 1) : r % n = i}
            /\ (tp = 2 /\ pp = 4) =>
                  made = << <<0, 1>>, <<2, 3>>, <<4, 5>>, <<6, 7>>,
                            <<0, 2, 4, 6>>, <<1, 3, 5, 7>> >>
            /\ dist.rank \in SeqRange(registry.TP_DEVICE_GROUP.ranks)
            /\ dist.rank \in SeqRange(registry.PP_DEVICE_GROUP.ranks)
            /\ \E i \in 1..(ws \div tp) : registry.TP_DEVICE_GROUP.ranks = made[i]
            /\ \E i \in 1..n : registry.PP_DEVICE_GROUP.ranks = made[(ws \div tp) + i]
            /\ registry.TP_CPU_GROUP.ranks = registry.TP_DEVICE_GROUP.ranks
            /\ registry.PP_CPU_GROUP.ranks = registry.PP_DEVICE_GROUP.ranks

\* C11 witness: rank 5 of 8 has built the groups of tp = 2, pp = 4.
EightRanksTwoByFour ==
    /\ op.name = "initialize_model_parallel" /\ op.status = "ok"
    /\ dist.world_size = 8 /\ dist.rank = 5
    /\ Args.tp = 2 /\ Args.pp = 4
    /\ registry.TP_DEVICE_GROUP.ranks = <<4, 5>>
    /\ registry.PP_DEVICE_GROUP.ranks = <<1, 3, 5, 7>>

\* C12: initialize_model_parallel with world_size # tp * pp (torch.distributed
\* initialised) raises the RuntimeError that names the sizes, has created no
\* process group and no communicator, and leaves every registry entry as it
\* found it.
MismatchCreatesNothing ==
    (/\ op.name = "initialize_model_parallel"
     /\ dist.initialized
     /\ dist.world_size # Args.tp * Args.pp) =>
        /\ op.status = "error"
        /\ op.err = "RuntimeError: world_size is not equal to tp x pp"
        /\ calls = <<>>
        /\ registry = Before

\* C12 witness: the mismatch was raised on a registry that holds groups.
MismatchOnInitializedRegistry ==
    /\ op.name = "initialize_model_parallel"
    /\ op.err = "RuntimeError: world_size is not equal to tp x pp"
    /\ model_parallel_is_initialized(registry)
    /\ dist.world_size % Args.tp = 0 /\ dist.world_size % Args.pp = 0

\* One exchange: the process that passes the mapping, the members that pass
\* None, and the payload broadcasts and the waits a member issued, in order.
Exchanged == op.name = "broadcast_tensor_dict" /\ world_size > 1
ValidSrc == 0 <= op.src /\ op.src < world_size
Source == PyIndex(ranks, op.src)
Receivers == SeqRange(ranks) \ {Source}
SourceDict == op.in.v
Payloads(r) == SelectSeq(peers[r].calls, LAMBDA c : c.fn = "torch.broadcast")
Waits(r) == SelectSeq(peers[r].calls, LAMBDA c : c.fn = "handle.wait")
ZeroElement(item) == IsTensor(item) /\ Numel(item[2].v.size) = 0

Matches(got, sent) ==
    /\ got[1] = sent[1]
    /\ got[2].t = sent[2].t
    /\ IF IsTensor(sent)
       THEN /\ got[2].v.size = sent[2].v.size
            /\ got[2].v.dtype = sent[2].v.dtype
            /\ got[2].v.device = sent[2].v.device
       ELSE got[2].v = sent[2].v

\* C14: the metadata list has one entry per key of the source mapping, in its
\* iteration order, and every receiver reconstructs a mapping with the same
\* keys in the same order, equal plain values and buffers of the same shape,
\* element type and placement.
PreservesOrderAndContent ==
    (Exchanged /\ ValidSrc) =>
        /\ LET metadata_list == split_tensor_dict(SourceDict).metadata_list
           IN  /\ Len(metadata_list) = Len(SourceDict)
               /\ \A i \in 1..Len(SourceDict) : metadata_list[i][1] = SourceDict[i][1]
        /\ \A r \in Receivers :
              /\ peers[r].status = "ok"
              /\ peers[r].out.t = "dict"
              /\ Len(peers[r].out.v) = Len(SourceDict)
              /\ \A i \in 1..Len(SourceDict) : Matches(peers[r].out.v[i], SourceDict[i])

\* C15: the payload broadcasts of the source and of each receiver agree in
\* number, order, source rank and sub-group, the host group for host buffers
\* and the device group for device buffers.
PayloadSequencesAgree ==
    (Exchanged /\ ValidSrc) =>
        \A r \in SeqRange(ranks) :
            /\ Len(Payloads(r)) = Len(Payloads(Source))
            /\ \A i \in 1..Len(Payloads(r)) :
                  /\ Payloads(r)[i].group = Payloads(Source)[i].group
                  /\ Payloads(r)[i].peer = Payloads(Source)[i].peer
                  /\ Payloads(r)[i].buf.size = Payloads(Source)[i].buf.size
                  /\ Payloads(r)[i].group =
                        IF Payloads(r)[i].buf.device = "cpu" THEN cpu_group ELSE device_group

\* C16: in each member's call the metadata broadcast precedes every payload
\* broadcast, every payload broadcast is issued before any is waited on, and
\* the call has waited once on every broadcast it issued, in the order issued.
MetadataThenPayloadsThenWaits ==
    Exchanged =>
        \A r \in SeqRange(ranks) :
            LET cs == peers[r].calls
                payload(i) == cs[i].fn = "torch.broadcast"
                wait(i) == cs[i].fn = "handle.wait"
            IN  /\ \A i, j \in 1..Len(cs) :
                      i < j => /\ ~(wait(i) /\ payload(j))
                               /\ ~((payload(i) \/ wait(i)) /\ ~(payload(j) \/ wait(j)))
                /\ (\E i \in 1..Len(cs) : payload(i)) => ~(payload(1) \/ wait(1))
                /\ Len(Waits(r)) = Len(Payloads(r))
                /\ \A k \in 1..Len(Waits(r)) :
                      /\ Waits(r)[k].group = Payloads(r)[k].group
                      /\ Waits(r)[k].peer = Payloads(r)[k].peer

\* C16 witness: a receiver issued two payload broadcasts and then waited twice.
ReceiverWaitedAfterIssuingAll ==
    /\ Exchanged /\ ValidSrc /\ rank \in Receivers /\ op.status = "ok"
    /\ Len(calls) = 5
    /\ calls[2].fn = "torch.broadcast" /\ calls[3].fn = "torch.broadcast"
    /\ calls[4].fn = "handle.wait" /\ calls[5].fn = "handle.wait"
    /\ calls[2].group # calls[3].group

UnexpectedSize ==
    {"AssertionError: tensor parallel group already initialized, but of unexpected size",
     "AssertionError: pipeline parallel group already initialized, but of unexpected size"}
AlreadyInitialized ==
    {"AssertionError: tensor model parallel group is already initialized",
     "AssertionError: pipeline model parallel group is already initialized"}

\* The sizes a registry holds groups of.
SizesOf(reg) == <<GroupSize(reg.TP_DEVICE_GROUP), GroupSize(reg.PP_DEVICE_GROUP)>>

\* C17: ensure_model_parallel_initialized(tp, pp), torch.distributed being
\* initialised: on a registry without groups and with world_size = tp * pp it
\* builds them, and model_parallel_is_initialized() is true afterwards with
\* groups of sizes tp and pp; on a registry with groups of the same sizes it
\* returns, creates nothing and changes no entry; on a registry with groups of
\* other sizes it fails with the unexpected-size assertion, creates nothing and
\* changes no entry.
EnsureIdempotentAndStrict ==
    (op.name = "ensure_model_parallel_initialized" /\ dist.initialized) =>
        IF ~model_parallel_is_initialized(Before)
        THEN dist.world_size = Args.tp * Args.pp =>
                /\ model_parallel_is_initialized(registry)
                /\ SizesOf(registry) = <<Args.tp, Args.pp>>
                /\ Len(NewGroups(FALSE)) > 0
        ELSE IF SizesOf(Before) = <<Args.tp, Args.pp>>
        THEN op.status = "ok" /\ calls = <<>> /\ registry = Before
        ELSE /\ op.status = "error" /\ op.err \in UnexpectedSize
             /\ calls = <<>> /\ registry = Before

\* C17 witness: groups of sizes (2, 2) are registered in a world of 4 and
\* ensure_model_parallel_initialized(4, 1) was refused.
EnsureRefusedOtherSizes ==
    /\ op.name = "ensure_model_parallel_initialized"
    /\ op.err \in UnexpectedSize
    /\ SizesOf(registry) = <<2, 2>>
    /\ Args.tp = 4 /\ Args.pp = 1

\* The registry of a process that has initialised the distributed environment
\* as reg's has and has never built a group.
NeverBuilt(reg) ==
    [RegistryUnset EXCEPT !.ENABLE_CUSTOM_ALL_REDUCE = reg.ENABLE_CUSTOM_ALL_REDUCE,
                          !.DEVICE_WORLD_GROUP = reg.DEVICE_WORLD_GROUP,
                          !.CPU_WORLD_GROUP = reg.CPU_WORLD_GROUP,
                          !.LOCAL_RANK = reg.LOCAL_RANK]

\* C18: initialize_model_parallel on a registry that holds groups is rejected,
\* creates nothing and changes no entry; on a registry whose groups were
\* destroyed it is not rejected as already initialised: with world_size =
\* tp * pp it registers new groups of sizes tp and pp and ends as the same call
\* ends in a process that never built a group.
ReinitializeOnlyAfterDestroy ==
    (op.name = "initialize_model_parallel" /\ dist.initialized) =>
        IF model_parallel_is_initialized(Before)
        THEN op.status = "error" /\ calls = <<>> /\ registry = Before
        ELSE /\ op.err \notin AlreadyInitialized
             /\ dist.world_size = Args.tp * Args.pp =>
                   /\ model_parallel_is_initialized(registry)
                   /\ SizesOf(registry) = <<Args.tp, Args.pp>>
                   /\ registry.TP_DEVICE_GROUP.build = dist.builds
                   /\ registry.PP_DEVICE_GROUP.build = dist.builds
                   /\ op.status =
                         initialize_model_parallel(NeverBuilt(Before), dist,
                                                   Args.tp, Args.pp).status

\* C18 witness: initialize_model_parallel returned on a registry that still
\* held what destroy_model_parallel left of the first build.
ReinitializedAfterDestroy ==
    /\ op.name = "initialize_model_parallel" /\ op.status = "ok"
    /\ dist.builds = 2
    /\ Before.TP_DEVICE_GROUP = NoGroup /\ Before.PP_DEVICE_GROUP = NoGroup
    /\ Before.PP_CPU_GROUP.build = 1
    /\ registry.TP_DEVICE_GROUP.build = 2

\* C19: after initialize_model_parallel has returned, _TP and _PP are set, so
\* get_tp_group() and get_pp_group() return coordinators and the module-level
\* graph_capture() can be entered.
CoordinatorsSetByInitialize ==
    (op.name = "initialize_model_parallel" /\ op.status = "ok") =>
        /\ registry.TP # None /\ registry.PP # None
        /\ get_tp_group(registry).status = "ok"
        /\ get_pp_group(registry).status = "ok"
        /\ graph_capture(registry).status = "ok"

\* The accessors the claim lists.
FailFast ==
    {"get_world_group", "get_tp_group", "get_pp_group", "get_cpu_world_group",
     "get_tensor_model_parallel_group", "get_tensor_model_parallel_cpu_group",
     "get_pipeline_model_parallel_group", "get_pipeline_model_parallel_cpu_group",
     "get_pipeline_model_parallel_first_rank", "get_pipeline_model_parallel_last_rank",
     "get_pipeline_model_parallel_next_rank", "get_pipeline_model_parallel_prev_rank"}
ModelParallelAccessors == Asserting \ {"get_cpu_world_group"}

\* C20: before init_distributed_environment no registry entry is set and
\* every listed accessor (and every other asserting one) raises and returns
\* nothing; after it and before any group is built only get_cpu_world_group
\* returns, and every accessor of the model-parallel groups still raises.
AccessorsFailFast ==
    (op.name = "accessors") =>
        /\ ~dist.initialized =>
              /\ registry = [RegistryUnset EXCEPT !.ENABLE_CUSTOM_ALL_REDUCE =
                                registry.ENABLE_CUSTOM_ALL_REDUCE]
              /\ FailFast \subseteq Asserting
              /\ \A name \in Asserting :
                    op.out.v[name].status = "error" /\ op.out.v[name].out = NoneVal
        /\ dist.builds = 0 =>
              \A name \in ModelParallelAccessors :
                  op.out.v[name].status = "error" /\ op.out.v[name].out = NoneVal

\* C20 witness: the accessors were read before anything was initialised.
ReadBeforeInitialization ==
    /\ op.name = "accessors"
    /\ ~dist.initialized
    /\ op.out.v["get_pipeline_model_parallel_prev_rank"].err =
          "AssertionError: Pipeline parallel group is not initialized"
    /\ op.out.v["get_local_rank"].out = Val("int", -1)

----------------------------------------------------------------------------
\* C21: after destroy_model_parallel() every tensor-parallel and
\* pipeline-parallel entry of the registry (device groups, cpu groups,
\* communicators, pipeline rank list) is unset, as in a process that never
\* built a group, and no getter returns a group or communicator of the
\* destroyed initialisation.
DestroyLeavesRegistryUnset ==
    (op.name = "destroy_model_parallel") =>
        /\ registry = NeverBuilt(registry)
        /\ get_pipeline_model_parallel_cpu_group(registry).status = "error"
        /\ get_tp_ca_communicator(registry).out = Val("comm", NoComm)
        /\ get_pp_pynccl_communicator(registry).out = Val("comm", NoComm)

\* The warm-up all_reduce calls among cs.
WarmUps(cs) == {i \in 1..Len(cs) : cs[i].fn = "torch.all_reduce"}

\* C22: init_distributed_environment called when torch.distributed is already
\* initialised creates no process group, runs no warm-up all_reduce (it calls
\* nothing) and changes no registry entry, the local rank and the world groups
\* included; called when it is not, it runs exactly one warm-up all_reduce.
InitDistributedEnvironmentGuarded ==
    [][ op'.name = "init_distributed_environment" =>
            IF dist.initialized
            THEN calls' = <<>> /\ registry' = registry
            ELSE Cardinality(WarmUps(calls')) = 1 ]_vars

\* C22 witness: a repeated call, with other arguments than the first, found the
\* world groups and a local rank other than 0 registered and left them.
RepeatedInitLeftRegistry ==
    /\ op.name = "init_distributed_environment"
    /\ calls = <<>>
    /\ Before.CPU_WORLD_GROUP # NoGroup
    /\ Before.LOCAL_RANK = dist.rank /\ dist.rank # 0
    /\ registry = Before

----------------------------------------------------------------------------
\* The input's shape with axis d (counted from 0) multiplied by n.
AxisTimes(size, d, n) ==
    [i \in 1..Len(size) |-> IF i = d + 1 THEN n * size[i] ELSE size[i]]

\* C23: with world size > 1, gather(tensor, dst, dim) with dst in
\* [0, world_size) and a valid dim: every member issues one backend gather
\* addressed to the global rank ranks[dst]; the member that allocates the
\* receive buffers is that same rank, the one whose rank_in_group equals dst,
\* and it alone returns the concatenation along dim; every other member
\* returns nothing.
GatherOnlyAtDestination ==
    (/\ op.name = "gather" /\ world_size > 1
     /\ op.src \in 0..(world_size - 1)
     /\ DimOk(op.in.v, op.dim)) =>
        \A r \in DOMAIN peers :
            LET p == peers[r]
                to == ranks[op.src + 1]
            IN  /\ p.status = "ok"
                /\ Len(p.calls) = 1
                /\ p.calls[1].fn = "torch.gather"
                /\ p.calls[1].peer = to
                /\ (p.calls[1].buf = "gather_list") <=> (r = to)
                /\ (Member(r).rank_in_group = op.src) <=> (r = to)
                /\ IF r = to
                   THEN /\ p.out.t = "tensor"
                        /\ p.out.v.size =
                              AxisTimes(op.in.v.size,
                                        IF op.dim < 0 THEN op.dim + Len(op.in.v.size)
                                        ELSE op.dim,
                                        world_size)
                   ELSE p.out = NoneVal

\* C23 witness: in the group of the global ranks 1 and 3, gather to dst = 1
\* along the last axis of a 2 x 3 tensor: rank 3 returned a 2 x 6 tensor, rank 1
\* nothing, both addressed rank 3.
GatheredAtRankThree ==
    /\ op.name = "gather" /\ ranks = <<1, 3>> /\ op.src = 1 /\ op.dim = -1
    /\ op.in.v.size = <<2, 3>>
    /\ peers[3].out.t = "tensor" /\ peers[3].out.v.size = <<2, 6>>
    /\ peers[1].out = NoneVal
    /\ peers[1].calls[1].peer = 3

----------------------------------------------------------------------------
\* The operations that take a local rank index (src, or dst for gather).
TakesLocalRank ==
    {"broadcast", "broadcast_object", "broadcast_object_list",
     "broadcast_tensor_dict", "gather"}

\* C24: on a live coordinator of world size > 1, every operation that takes a
\* local rank index outside [0, world_size), a negative one included, fails
\* and has called no backend.
OutOfRangeRankRejected ==
    (/\ op.name \in TakesLocalRank
     /\ world_size > 1 /\ ~destroyed
     /\ op.src \notin 0..(world_size - 1)) =>
        op.status = "error" /\ calls = <<>>

----------------------------------------------------------------------------
\* C25: with world size W > 1 and an input of r dimensions, all_gather(tensor,
\* dim) at every member: for dim outside [-r, r) it fails with the dimension
\* error and calls no backend; otherwise it returns what it returns for
\* dim + r when dim is negative, and the result's shape is the input's with the
\* size of axis dim multiplied by W and every other axis unchanged.
AllGatherAlongDim ==
    (op.name = "all_gather" /\ world_size > 1) =>
        LET r == Len(op.in.v.size)
            axis == IF op.dim < 0 THEN op.dim + r ELSE op.dim
        IN  \A m \in DOMAIN peers :
                IF op.dim < -r \/ op.dim >= r
                THEN /\ peers[m].status = "error"
                     /\ peers[m].err = "AssertionError: Invalid dim"
                     /\ peers[m].calls = <<>>
                ELSE /\ peers[m].status = "ok"
                     /\ peers[m].out = all_gather(Member(m), op.in.v, axis).out
                     /\ Len(peers[m].out.v.size) = r
                     /\ \A i \in 1..r :
                           peers[m].out.v.size[i] =
                               IF i = axis + 1 THEN world_size * op.in.v.size[i]
                               ELSE op.in.v.size[i]

\* C25 witness: all_gather of a 2 x 3 x 4 tensor along dim = -2 in a group of
\* four returned a 2 x 12 x 4 tensor.
AllGatheredMiddleAxis ==
    /\ op.name = "all_gather" /\ world_size = 4
    /\ op.in.v.size = <<2, 3, 4>> /\ op.dim = -2
    /\ op.status = "ok" /\ op.out.v.size = <<2, 12, 4>>

----------------------------------------------------------------------------
\* C26: in every reachable state of a coordinator the host sub-group and the
\* device sub-group are both present or both absent: both are present from
\* construction until destroy(), and destroy() leaves both absent.
SubGroupsTogether ==
    /\ (device_group = None) <=> (cpu_group = None)
    /\ (world_size > 0 /\ ~destroyed) => (device_group # None /\ cpu_group # None)
    /\ (op.name = "destroy") => (device_group = None /\ cpu_group = None)

\* C26 witness: destroy() released the two sub-groups of a live coordinator,
\* one call each, and left both absent.
BothSubGroupsReleased ==
    /\ op.name = "destroy"
    /\ Len(calls) = 2
    /\ calls[1].group # None /\ calls[2].group # None
    /\ TorchGroup(calls[1].group) = "dev" /\ TorchGroup(calls[2].group) = "cpu"
    /\ device_group = None /\ cpu_group = None

----------------------------------------------------------------------------
\* C28: after destroy() every resource the coordinator owned is absent: the
\* device sub-group, the host sub-group, the pynccl handle, the custom
\* all-reduce handle and the shared-memory broadcaster are all None.
DestroyReleasesEveryResource ==
    (op.name = "destroy") =>
        /\ device_group = None /\ cpu_group = None
        /\ pynccl_comm = None /\ ca_comm = None
        /\ shm_broadcaster = None

----------------------------------------------------------------------------
\* C27: no communicator handle exists for a group of world size 1 or for a
\* disabled backend. After initialize_model_parallel has returned, the pynccl
\* and custom all-reduce entries of a tensor-parallel group of size 1 and the
\* pynccl entry of a pipeline-parallel group of size 1 are unset, and the
\* custom all-reduce entry is unset when custom all-reduce is disabled.
NoHandleForSingleRankGroup ==
    (op.name = "initialize_model_parallel" /\ op.status = "ok") =>
        /\ Args.tp = 1 =>
              /\ registry.TP_PYNCCL_COMMUNICATOR = NoComm
              /\ registry.TP_CA_COMMUNICATOR = NoComm
        /\ Args.pp = 1 => registry.PP_PYNCCL_COMMUNICATOR = NoComm
        /\ ~registry.ENABLE_CUSTOM_ALL_REDUCE => registry.TP_CA_COMMUNICATOR = NoComm

----------------------------------------------------------------------------
\* The broadcasts a member issued through torch.distributed.
Broadcasts(r) ==
    SelectSeq(peers[r].calls,
              LAMBDA c : c.fn \in {"torch.broadcast_object_list", "torch.broadcast"})
\* The member sent in the metadata broadcast.
SentMetadata(r) ==
    \E i \in 1..Len(peers[r].calls) :
        /\ peers[r].calls[i].fn = "torch.broadcast_object_list"
        /\ peers[r].calls[i].buf = "[obj]"

\* C30: broadcast_tensor_dict on a group of size > 1 without a shared-memory
\* broadcaster, whatever the group's global ranks, with src in
\* [0, world_size): no member fails, every metadata and payload broadcast of
\* every member names the global rank ranks[src] as its source, and that
\* process alone takes the sender branch.
SameSourceProcess ==
    (Exchanged /\ ValidSrc /\ shm_broadcaster = None) =>
        \A r \in DOMAIN peers :
            /\ peers[r].status = "ok"
            /\ \A i \in 1..Len(Broadcasts(r)) : Broadcasts(r)[i].peer = Source
            /\ SentMetadata(r) <=> (r = Source)

----------------------------------------------------------------------------
\* C29: scales_shard_indexer fails on every unsupported shard id, a string
\* outside q, k, v and a shard id that is neither int nor str, and does not
\* go on to index the parameter.
UnsupportedShardIdRejected ==
    (/\ op.name = "scales_shard_indexer"
     /\ \/ op.in.v.shard_id.t \notin {"int", "str"}
        \/ op.in.v.shard_id.t = "str" /\ op.in.v.shard_id.v \notin {"q", "k", "v"}) =>
        op.status = "error" /\ calls = <<>>

----------------------------------------------------------------------------
\* C31: while a graph_capture scope is active on a live coordinator of world
\* size > 1, all_reduce never calls torch.distributed.all_reduce: it is served
\* by the custom all-reduce kernel or by pynccl.
CaptureAvoidsTorchDistributed ==
    (op.name = "all_reduce" /\ world_size > 1 /\ scopes # <<>> /\ ~destroyed) =>
        /\ \A i \in 1..Len(calls) : calls[i].fn # "torch.all_reduce"
        /\ \E i \in 1..Len(calls) :
              \/ calls[i].fn = "pynccl.all_reduce"
              \/ calls[i].fn = "ca.custom_all_reduce" /\ calls[i].buf = "out"

----------------------------------------------------------------------------
\* An exchange is under way on a group of size > 1 with src in [0, world_size).
Began == pc # <<>> /\ world_size > 1 /\ 0 <= op.src /\ op.src < world_size
Finished == \A r \in DOMAIN pc : pc[r].state # "running"

\* C32: when every member of a group of size > 1 calls broadcast_tensor_dict
\* with the same valid src and the source passes the mapping, every member's
\* call eventually ends: none stays suspended in a broadcast that another
\* member never issues.
EveryMemberFinishes == Began ~> Finished

----------------------------------------------------------------------------
\* initialize_model_parallel has run in a world of tp * pp ranks on a registry
\* without groups.
BuiltMesh ==
    /\ op.name = "initialize_model_parallel"
    /\ dist.initialized
    /\ Before.TP_DEVICE_GROUP = NoGroup
    /\ dist.world_size = Args.tp * Args.pp
\* The positions, among the device groups created, of the tensor-parallel and
\* of the pipeline-parallel groups.
TensorBuilt == 1..(dist.world_size \div Args.tp)
PipelineBuilt == ((dist.world_size \div Args.tp) + 1)..Len(NewGroups(FALSE))
Holding(made, idx, r) == {i \in idx : r \in SeqRange(made[i])}

\* C33: for every world_size = tp * pp the tensor-parallel groups created
\* partition the ranks 0..world_size-1, and so do the pipeline-parallel
\* groups: every rank is in exactly one group of each kind, no group names a
\* rank twice or a rank outside the world, and the process registers the one
\* group of each kind that holds its rank.
GroupsPartitionRanks ==
    BuiltMesh =>
        LET made == NewGroups(FALSE)
            world == 0..(dist.world_size - 1)
        IN  /\ \A i \in 1..Len(made) :
                  /\ SeqRange(made[i]) \subseteq world
                  /\ Cardinality(SeqRange(made[i])) = Len(made[i])
            /\ \A r \in world :
                  /\ Cardinality(Holding(made, TensorBuilt, r)) = 1
                  /\ Cardinality(Holding(made, PipelineBuilt, r)) = 1
            /\ \A i \in Holding(made, TensorBuilt, dist.rank) :
                  registry.TP_DEVICE_GROUP.ranks = made[i]
            /\ \A i \in Holding(made, PipelineBuilt, dist.rank) :
                  registry.PP_DEVICE_GROUP.ranks = made[i]

\* C33 witness: rank 4 of 6 built tp = 3, pp = 2 and registered the tensor
\* group (3, 4, 5) and the pipeline group (1, 4).
SixRanksThreeByTwo ==
    /\ BuiltMesh /\ op.status = "ok"
    /\ dist.world_size = 6 /\ dist.rank = 4
    /\ Args.tp = 3 /\ Args.pp = 2
    /\ Len(NewGroups(FALSE)) = 5
    /\ registry.TP_DEVICE_GROUP.ranks = <<3, 4, 5>>
    /\ registry.PP_DEVICE_GROUP.ranks = <<1, 4>>

----------------------------------------------------------------------------
\* C34: for every world_size = tp * pp each tensor-parallel group and each
\* pipeline-parallel group created have exactly one rank in common, and
\* get_tensor_model_parallel_src_rank() returns the first rank of the
\* caller's tensor-parallel group.
MeshAndSourceRank ==
    /\ BuiltMesh =>
          LET made == NewGroups(FALSE)
          IN  \A i \in TensorBuilt, j \in PipelineBuilt :
                  Cardinality(SeqRange(made[i]) \cap SeqRange(made[j])) = 1
    /\ (op.name = "accessors" /\ registry.TP_DEVICE_GROUP # NoGroup) =>
          /\ op.out.v["get_tensor_model_parallel_src_rank"].status = "ok"
          /\ op.out.v["get_tensor_model_parallel_src_rank"].out =
                Val("int", registry.TP_DEVICE_GROUP.ranks[1])

\* C34 witness: rank 7 of 8 with tp = 4, pp = 2 read its source rank, 4, the
\* first of its tensor group (4, 5, 6, 7).
SourceRankOfSecondTensorGroup ==
    /\ op.name = "accessors"
    /\ dist.world_size = 8 /\ dist.rank = 7
    /\ registry.TP_DEVICE_GROUP.ranks = <<4, 5, 6, 7>>
    /\ registry.PP_DEVICE_GROUP.ranks = <<3, 7>>
    /\ op.out.v["get_tensor_model_parallel_src_rank"].out = Val("int", 4)

----------------------------------------------------------------------------
\* C35: on every coordinator first_rank is ranks[0] and last_rank is
\* ranks[world_size - 1]; next_rank and prev_rank are the neighbours in ranks,
\* wrapping around the group, so that for every member r the next rank of r's
\* previous rank and the previous rank of r's next rank are both r; and on the
\* pipeline group the registry's pipeline first/last/next/prev helpers return
\* what the coordinator's properties return.
RingConsistent ==
    (op.name = "ring") =>
        /\ \A r \in DOMAIN peers :
              LET i == Member(r).rank_in_group
              IN  /\ peers[r].first_rank = ranks[1]
                  /\ peers[r].last_rank = ranks[world_size]
                  /\ peers[r].next_rank = ranks[IF i + 1 = world_size THEN 1 ELSE i + 2]
                  /\ peers[r].prev_rank = ranks[IF i = 0 THEN world_size ELSE i]
                  /\ peers[peers[r].prev_rank].next_rank = r
                  /\ peers[peers[r].next_rank].prev_rank = r
        /\ (ranks = registry.PP_DEVICE_GROUP.ranks) =>
              \A h \in {"first_rank", "last_rank", "next_rank", "prev_rank"} :
                  /\ op.out.v[h].status = "ok"
                  /\ op.out.v[h].out = Val("int", peers[rank][h])

\* C35 witness: rank 6 of 8, tp = 2, pp = 4, on the pipeline group (0, 2, 4, 6):
\* its next rank wraps to 0, its previous rank is 4, and the registry agrees.
LastOfPipelineWraps ==
    /\ op.name = "ring"
    /\ ranks = <<0, 2, 4, 6>> /\ rank = 6
    /\ registry.PP_GLOBAL_RANKS = Val("list", <<0, 2, 4, 6>>)
    /\ peers[6].next_rank = 0 /\ peers[6].prev_rank = 4
    /\ op.out.v.next_rank.out = Val("int", 0)
    /\ op.out.v.last_rank.out = Val("int", 6)

----------------------------------------------------------------------------
\* C36: after any sequence of set_custom_all_reduce, initialize_model_parallel
\* and destroy_model_parallel, get_tp_ca_communicator() returns a communicator
\* only while model parallelism is initialised, and then the one the most
\* recent initialize_model_parallel created on its tensor-parallel group, never
\* one of an earlier initialisation.
CaCommunicatorOfCurrentInitialization ==
    (op.name = "accessors") =>
        LET ca == op.out.v["get_tp_ca_communicator"].out.v
        IN  ca # NoComm =>
                /\ op.out.v["model_parallel_is_initialized"].out = Val("bool", TRUE)
                /\ ca.group = registry.TP_CPU_GROUP

====
